---- MODULE Spec2Model ----
(***************************************************************************)
(* Model of the worktree orchestrator: the JSON-backed status tracker      *)
(* (open_orchestrator/core/status.py, models/status.py), the atomic        *)
(* persistence helper (utils/io.py), the git worktree manager              *)
(* (claude_orchestrator/core/worktree.py), the tmux manager, the sync and  *)
(* cleanup services and the create, delete and status commands (cli.py).   *)
(***************************************************************************)
EXTENDS Integers, Sequences, FiniteSets, TLC

VARIABLES
    cfg,      \* StatusConfig of the tracker: max_command_history, store_commands, redact_commands
    store,    \* StatusTracker._store : the in-memory StatusStore
    file,     \* the status file at StatusTracker._storage_path
    clock,    \* the value datetime.now() returns (ticks)
    hist,     \* history: per name, what was recorded since initialize_status
    procs,    \* concurrent tracker processes: position, store, open file, data being saved
    fs,       \* the directory of the status file: names -> inodes -> contents
    renames,  \* history: the documents os.replace installed at the status file, in order
    wts,      \* git: the registered worktrees in `git worktree list` order, main first
    dirs,     \* the directories that exist on disk
    branches, \* git: the branches under refs/heads
    git_root, \* WorktreeManager.git_root : working directory of the manager's Repo
    ret,      \* the last call or command: its arguments, outcome and what it ran
    sessions,     \* tmux: the names of the sessions the server holds
    cli_statuses, \* the status file of the command line's StatusTracker: its entries
    cli           \* the last command line: its options, exit code, warnings and steps

trackerVars == <<cfg, store, file, clock, hist>>
procVars == <<procs, fs, renames>>
wtVars == <<wts, dirs, branches, git_root, ret>>
tmuxVars == <<sessions>>
cliVars == <<cli_statuses, cli>>
vars == <<cfg, store, file, clock, hist, procs, fs, renames, wts, dirs, branches, git_root, ret,
          sessions, cli_statuses, cli>>

NoCommand == [cmd |-> "none"]

(***************************************************************************)
(* Bounds of the model.                                                    *)
(***************************************************************************)
MaxClock == 4        \* number of mutating tracker calls explored
MaxCap == 2          \* largest max_command_history explored

(***************************************************************************)
(* Input sets.                                                             *)
(***************************************************************************)
Names == {"wa", "wb"}
CommandTexts == {<<"ls">>, <<"password=", "hunter2">>}
TaskStatuses == {"working", "blocked"}
NoneStr == "None"
NoneTime == 0 - 1

(***************************************************************************)
(* models/status.py : AIActivityStatus.  A field holds either the enum     *)
(* member (after a plain assignment) or its value string (after pydantic   *)
(* validation with use_enum_values); Python's == treats both alike.        *)
(***************************************************************************)
AIActivityStatus ==
    {"idle", "working", "blocked", "waiting", "completed", "error", "unknown"}

Member(v) == <<"enum", v>>
ValueStr(v) == <<"str", v>>
EnumValue(x) == x[2]
StatusIs(x, v) == EnumValue(x) = v

(***************************************************************************)
(* Python list slice xs[-m:] .                                             *)
(***************************************************************************)
PySliceFirst(xs, m) ==
    IF m = 0 \/ m >= Len(xs) THEN xs
    ELSE SubSeq(xs, 1, m)

PySliceLast(xs, m) ==
    IF m = 0 \/ m >= Len(xs) THEN xs
    ELSE SubSeq(xs, Len(xs) - m + 1, Len(xs))

Put(f, k, v) == [x \in (DOMAIN f) \cup {k} |-> IF x = k THEN v ELSE f[x]]
Drop(f, k) == [x \in (DOMAIN f) \ {k} |-> f[x]]

(***************************************************************************)
(* models/status.py : CommandRecord, WorktreeAIStatus.                     *)
(***************************************************************************)
CommandRecord(now, command, source, pane, window) ==
    [timestamp |-> now, command |-> command, source_worktree |-> source,
     pane_index |-> pane, window_index |-> window]

NewWorktreeAIStatus(name, path, branch, tmux, tool, now) ==
    [worktree_name |-> name, worktree_path |-> path, branch |-> branch,
     tmux_session |-> tmux, ai_tool |-> tool,
     activity_status |-> ValueStr("idle"),
     current_task |-> NoneStr, last_task_update |-> NoneTime,
     recent_commands |-> <<>>, notes |-> NoneStr,
     created_at |-> now, updated_at |-> now]

add_command_untrimmed(e, command, source, pane, window, max_history, now) ==
    [e EXCEPT !.recent_commands =
                  Append(@, CommandRecord(now, command, source, pane, window)),
              !.updated_at = now]

add_command(e, command, source, pane, window, max_history, now) ==
    LET appended == Append(e.recent_commands,
                           CommandRecord(now, command, source, pane, window))
    IN  [e EXCEPT !.recent_commands =
                      IF Len(appended) > max_history
                      THEN PySliceLast(appended, max_history)
                      ELSE appended,
                  !.updated_at = now]

update_task(e, task, status, now) ==
    [e EXCEPT !.current_task = task, !.activity_status = Member(status),
              !.last_task_update = now, !.updated_at = now]

mark_completed(e, now) ==
    [e EXCEPT !.activity_status = Member("completed"), !.updated_at = now]

mark_idle(e, now) ==
    [e EXCEPT !.activity_status = Member("idle"), !.current_task = NoneStr,
              !.updated_at = now]

(***************************************************************************)
(* models/status.py : StatusStore.                                         *)
(***************************************************************************)
NewStatusStore(now) == [updated_at |-> now, statuses |-> <<>>]

Tracked(st, name) == name \in DOMAIN st.statuses

StoreSetStatus(st, e, now) ==
    [st EXCEPT !.statuses = Put(st.statuses, e.worktree_name, e),
               !.updated_at = now]

StoreRemoveStatus(st, name, now) ==
    IF Tracked(st, name)
    THEN [st EXCEPT !.statuses = Drop(st.statuses, name), !.updated_at = now]
    ELSE st

(***************************************************************************)
(* core/status.py : _sanitize_command.  A command text is a sequence of    *)
(* atoms: a key atom stands for `password=`, `token=`, `secret=` or        *)
(* `api_key=` (the part each pattern matches up to its [:=]), Space for a  *)
(* whitespace character, Quote for a single or double quote, and any other *)
(* atom for a run of characters that are none of these.  Each pattern in   *)
(* turn - the key with its separator and following whitespace, an optional *)
(* quote, one or more characters that are neither quote nor whitespace, an *)
(* optional quote - is replaced, from left to right over the whole text,   *)
(* by the key part followed by the redaction marker.                       *)
(***************************************************************************)
SecretKeys == {"password=", "token=", "secret=", "api_key="}
KeyOrder == <<"password=", "api_key=", "token=", "secret=">>
Space == " "
Quote == "\""
Redacted == "[REDACTED]"

IsValueAtom(a) == a # Space /\ a # Quote

\* \s* : the first index from j on that holds no Space
RECURSIVE SkipSpaces(_, _)
SkipSpaces(t, j) ==
    IF j <= Len(t) /\ t[j] = Space THEN SkipSpaces(t, j + 1) ELSE j

\* the value run: the first index from q on that holds no value atom
RECURSIVE ValueEnd(_, _)
ValueEnd(t, q) ==
    IF q <= Len(t) /\ IsValueAtom(t[q]) THEN ValueEnd(t, q + 1) ELSE q

\* re.sub of the pattern of key over t, from index i on
RECURSIVE RedactFrom(_, _, _)
RedactFrom(t, i, key) ==
    IF i > Len(t) THEN <<>>
    ELSE IF t[i] # key THEN <<t[i]>> \o RedactFrom(t, i + 1, key)
    ELSE LET j == SkipSpaces(t, i + 1)
             q == IF j <= Len(t) /\ t[j] = Quote THEN j + 1 ELSE j
             v == ValueEnd(t, q)
             next == IF v <= Len(t) /\ t[v] = Quote THEN v + 1 ELSE v
         IN  IF v > q
             THEN SubSeq(t, i, j - 1) \o <<Redacted>> \o RedactFrom(t, next, key)
             ELSE <<t[i]>> \o RedactFrom(t, i + 1, key)

RECURSIVE RedactKeys(_, _)
RedactKeys(t, k) ==
    IF k > Len(KeyOrder) THEN t
    ELSE RedactKeys(RedactFrom(t, 1, KeyOrder[k]), k + 1)

sanitize_command(text) == RedactKeys(text, 1)

(***************************************************************************)
(* core/status.py : _save_store / _load_store.  model_dump(mode="json")    *)
(* turns datetimes into ISO strings, None into null and enum members into  *)
(* their values; model_validate parses them back and rejects the whole     *)
(* document when a field does not validate.                                *)
(***************************************************************************)
JsonTime(t) == IF t = NoneTime THEN <<"null", 0>> ELSE <<"iso", t>>
ParseTime(j) == IF j[1] = "null" THEN NoneTime ELSE j[2]
JsonOptStr(s) == IF s = NoneStr THEN <<"null", "">> ELSE <<"string", s>>
ParseOptStr(j) == IF j[1] = "null" THEN NoneStr ELSE j[2]

DumpCommand(r) ==
    [timestamp |-> JsonTime(r.timestamp), command |-> r.command,
     source_worktree |-> JsonOptStr(r.source_worktree),
     pane_index |-> r.pane_index, window_index |-> r.window_index]

ParseCommand(j) ==
    [timestamp |-> ParseTime(j.timestamp), command |-> j.command,
     source_worktree |-> ParseOptStr(j.source_worktree),
     pane_index |-> j.pane_index, window_index |-> j.window_index]

DumpEntry(e) ==
    [worktree_name |-> e.worktree_name, worktree_path |-> e.worktree_path,
     branch |-> e.branch, tmux_session |-> JsonOptStr(e.tmux_session),
     ai_tool |-> e.ai_tool, activity_status |-> EnumValue(e.activity_status),
     current_task |-> JsonOptStr(e.current_task),
     last_task_update |-> JsonTime(e.last_task_update),
     recent_commands |->
        [i \in 1..Len(e.recent_commands) |-> DumpCommand(e.recent_commands[i])],
     notes |-> JsonOptStr(e.notes),
     created_at |-> JsonTime(e.created_at),
     updated_at |-> JsonTime(e.updated_at)]

ParseEntry(j) ==
    [worktree_name |-> j.worktree_name, worktree_path |-> j.worktree_path,
     branch |-> j.branch, tmux_session |-> ParseOptStr(j.tmux_session),
     ai_tool |-> j.ai_tool, activity_status |-> ValueStr(j.activity_status),
     current_task |-> ParseOptStr(j.current_task),
     last_task_update |-> ParseTime(j.last_task_update),
     recent_commands |->
        [i \in 1..Len(j.recent_commands) |-> ParseCommand(j.recent_commands[i])],
     notes |-> ParseOptStr(j.notes),
     created_at |-> ParseTime(j.created_at),
     updated_at |-> ParseTime(j.updated_at)]

EntryValidates(j) ==
    /\ j.activity_status \in AIActivityStatus
    /\ j.created_at[1] = "iso"
    /\ j.updated_at[1] = "iso"

DumpStore(st) ==
    [version |-> "1.1", updated_at |-> JsonTime(st.updated_at),
     statuses |-> [n \in DOMAIN st.statuses |-> DumpEntry(st.statuses[n])]]

AbsentFile == [kind |-> "absent", doc |-> DumpStore(NewStatusStore(0))]
GarbageFile == [kind |-> "garbage", doc |-> DumpStore(NewStatusStore(0))]
UnreadableFile == [kind |-> "unreadable", doc |-> DumpStore(NewStatusStore(0))]
JsonFile(doc) == [kind |-> "json", doc |-> doc]

\* a well-formed JSON document whose entry does not validate
InvalidFile ==
    JsonFile(DumpStore([updated_at |-> 0,
        statuses |-> [n \in {"wa"} |->
            [NewWorktreeAIStatus(n, "/w/x", "br", NoneStr, "claude", 0)
                EXCEPT !.activity_status = ValueStr("bogus")]]]))

save_store(st) == JsonFile(DumpStore(st))

\* the exception the body of _load_store's try raises, with its base classes
LoadException(f) ==
    IF f.kind = "unreadable" THEN {"PermissionError", "OSError"}
    ELSE IF f.kind = "garbage" THEN {"JSONDecodeError", "ValueError"}
    ELSE IF \E n \in DOMAIN f.doc.statuses : ~EntryValidates(f.doc.statuses[n])
         THEN {"ValidationError", "ValueError"}
    ELSE {}

HandledWithoutValueError == {"OSError", "JSONDecodeError"}

Handled == {"OSError", "JSONDecodeError", "ValueError"}

\* the constructor raises when _load_store lets the exception through
load_raises(f) ==
    f.kind # "absent" /\ LoadException(f) # {} /\ LoadException(f) \cap Handled = {}

load_store(f, now) ==
    IF f.kind # "absent" /\ LoadException(f) = {}
    THEN [updated_at |-> ParseTime(f.doc.updated_at),
          statuses |-> [n \in DOMAIN f.doc.statuses |-> ParseEntry(f.doc.statuses[n])]]
    ELSE NewStatusStore(now)

(***************************************************************************)
(* utils/io.py : shared_file_lock, as _load_store enters it.  The lock     *)
(* attempt is `import fcntl; fcntl.flock(f, LOCK_SH)` (msvcrt.locking on   *)
(* win32) inside a try that catches OSError only.                          *)
(***************************************************************************)
LockOutcomes == {"acquired", "oserror", "unavailable"}

\* the exception the lock attempt raises, with its base classes: flock or
\* locking failing, or the import finding no lock module on the platform
LockAttempt(lock) ==
    IF lock = "oserror" THEN {"OSError"}
    ELSE IF lock = "unavailable" THEN {"ModuleNotFoundError", "ImportError"}
    ELSE {}

LockHandled == {"OSError"}

\* the exception that leaves shared_file_lock before its yield
shared_file_lock(lock) ==
    IF LockAttempt(lock) \cap LockHandled # {} THEN {} ELSE LockAttempt(lock)

\* the exception the body of _load_store's try raises: open, then the lock,
\* then json.load and model_validate
LoadExceptionUnder(f, lock) ==
    IF f.kind = "absent" THEN {}
    ELSE IF f.kind = "unreadable" THEN LoadException(f)
    ELSE IF shared_file_lock(lock) # {} THEN shared_file_lock(lock)
    ELSE LoadException(f)

load_raises_under(f, lock) ==
    LoadExceptionUnder(f, lock) # {} /\ LoadExceptionUnder(f, lock) \cap Handled = {}

load_store_under(f, lock, now) ==
    IF LoadExceptionUnder(f, lock) # {} THEN NewStatusStore(now) ELSE load_store(f, now)

(***************************************************************************)
(* History kept for the claims: the texts appended for a name since its    *)
(* last initialize_status, and whether only record_command touched it.     *)
(***************************************************************************)
FreshHist == [cmds |-> <<>>, only |-> TRUE]
Touch(h, name) == [h EXCEPT ![name].only = FALSE]

(***************************************************************************)
(* core/status.py : the tracker's operations, each with its save.          *)
(***************************************************************************)
Mutate(newStore) ==
    /\ clock <= MaxClock
    /\ store' = newStore
    /\ file' = save_store(newStore)
    /\ clock' = clock + 1
    /\ cfg' = cfg
    /\ UNCHANGED <<procVars, wtVars, tmuxVars, cliVars>>

NoOp == UNCHANGED vars

initialize_status(name, path, branch, tmux, tool) ==
    /\ Mutate(StoreSetStatus(store,
                NewWorktreeAIStatus(name, path, branch, tmux, tool, clock), clock))
    /\ hist' = [hist EXCEPT ![name] = FreshHist]

\* What a call on the store st does: what it returns (<<>> is None, <<e>> the
\* entry), the store it leaves in memory, and whether it ran _save_store.
Result(returned, st, saved) == [ret |-> returned, store |-> st, saved |-> saved]

ReturnsNone(st) == Result(<<>>, st, FALSE)
ReturnsSaved(st, e) == Result(<<e>>, StoreSetStatus(st, e, clock), TRUE)

\* the action of a call: the store and the file it leaves, or nothing at all
Apply(r, h) ==
    IF r.saved THEN Mutate(r.store) /\ hist' = h
    ELSE NoOp

update_task_call(st, name, task, status) ==
    IF ~Tracked(st, name) THEN ReturnsNone(st)
    ELSE ReturnsSaved(st, update_task(st.statuses[name], task, status, clock))

tracker_update_task(name, task, status) ==
    Apply(update_task_call(store, name, task, status), Touch(hist, name))

RecordedText(command) ==
    IF cfg.redact_commands THEN sanitize_command(command) ELSE command

RecordedEntryAlwaysWorking(e, command, source, pane, window) ==
    LET added == IF cfg.store_commands
                 THEN add_command(e, RecordedText(command), source, pane, window,
                                  cfg.max_command_history, clock)
                 ELSE e
    IN  [added EXCEPT !.activity_status = Member("working")]

RecordedEntry(e, command, source, pane, window) ==
    LET added == IF cfg.store_commands
                 THEN add_command(e, RecordedText(command), source, pane, window,
                                  cfg.max_command_history, clock)
                 ELSE e
    IN  IF StatusIs(added.activity_status, "idle")
        THEN [added EXCEPT !.activity_status = Member("working")]
        ELSE added

record_command_upserts(st, name, command, source, pane, window) ==
    ReturnsSaved(st, RecordedEntry(
        IF Tracked(st, name) THEN st.statuses[name]
        ELSE NewWorktreeAIStatus(name, "/w/x", "br", NoneStr, "claude", clock),
        command, source, pane, window))

record_command_call(st, name, command, source, pane, window) ==
    IF ~Tracked(st, name) THEN ReturnsNone(st)
    ELSE ReturnsSaved(st, RecordedEntry(st.statuses[name], command, source, pane, window))

record_command(name, command, source, pane, window) ==
    Apply(record_command_call(store, name, command, source, pane, window),
          [hist EXCEPT ![name].cmds = Append(@, RecordedText(command))])

mark_completed_call(st, name) ==
    IF ~Tracked(st, name) THEN ReturnsNone(st)
    ELSE ReturnsSaved(st, mark_completed(st.statuses[name], clock))

tracker_mark_completed(name) ==
    Apply(mark_completed_call(store, name), Touch(hist, name))

mark_idle_call(st, name) ==
    IF ~Tracked(st, name) THEN ReturnsNone(st)
    ELSE ReturnsSaved(st, mark_idle(st.statuses[name], clock))

tracker_mark_idle(name) ==
    Apply(mark_idle_call(store, name), Touch(hist, name))

set_notes_call(st, name, notes) ==
    IF ~Tracked(st, name) THEN ReturnsNone(st)
    ELSE ReturnsSaved(st, [st.statuses[name] EXCEPT !.notes = notes, !.updated_at = clock])

set_notes(name, notes) ==
    Apply(set_notes_call(store, name, notes), Touch(hist, name))

remove_status_unsaved(name) ==
    IF ~Tracked(store, name) THEN NoOp
    ELSE /\ clock <= MaxClock
         /\ store' = StoreRemoveStatus(store, name, clock)
         /\ clock' = clock + 1
         /\ hist' = [hist EXCEPT ![name] = FreshHist]
         /\ UNCHANGED <<cfg, file, procVars, wtVars, tmuxVars, cliVars>>

remove_status(name) ==
    IF ~Tracked(store, name) THEN NoOp
    ELSE /\ Mutate(StoreRemoveStatus(store, name, clock))
         /\ hist' = [hist EXCEPT ![name] = FreshHist]

Orphans(st, valid) == {n \in DOMAIN st.statuses : n \notin valid}

\* the loop over current_names: each orphan goes through StatusStore.remove_status
RECURSIVE RemoveAll(_, _)
RemoveAll(st, names) ==
    IF names = {} THEN st
    ELSE LET n == CHOOSE x \in names : TRUE
         IN  RemoveAll(StoreRemoveStatus(st, n, clock), names \ {n})

\* returns the removed names (a list without repetitions, as a set)
cleanup_removes_valid(st, valid) ==
    Result(DOMAIN st.statuses \cap valid,
           RemoveAll(st, DOMAIN st.statuses \cap valid),
           DOMAIN st.statuses \cap valid # {})

cleanup_orphans_call(st, valid) ==
    Result(Orphans(st, valid), RemoveAll(st, Orphans(st, valid)),
           Orphans(st, valid) # {})

cleanup_orphans(valid) ==
    Apply(cleanup_orphans_call(store, valid),
          [n \in Names |-> IF n \in Orphans(store, valid) THEN FreshHist ELSE hist[n]])

(***************************************************************************)
(* core/status.py : get_summary.  The filter is the set of the names       *)
(* passed; None and the empty list are both falsy and select every entry.  *)
(***************************************************************************)
NewStatusSummary(total, with_status) ==
    [total_worktrees |-> total, worktrees_with_status |-> with_status,
     active_ai_sessions |-> 0, idle_ai_sessions |-> 0, blocked_ai_sessions |-> 0,
     unknown_status |-> 0, total_commands_sent |-> 0, most_recent_activity |-> NoneTime]

SummaryCounterCompletedActive(e) ==
    IF StatusIs(e.activity_status, "working") \/ StatusIs(e.activity_status, "completed")
    THEN "active_ai_sessions"
    ELSE IF StatusIs(e.activity_status, "idle") THEN "idle_ai_sessions"
    ELSE IF StatusIs(e.activity_status, "blocked") THEN "blocked_ai_sessions"
    ELSE "unknown_status"

\* the if / elif chain: the counter an entry adds one to
SummaryCounter(e) ==
    IF StatusIs(e.activity_status, "working") THEN "active_ai_sessions"
    ELSE IF StatusIs(e.activity_status, "idle") THEN "idle_ai_sessions"
    ELSE IF StatusIs(e.activity_status, "blocked") THEN "blocked_ai_sessions"
    ELSE "unknown_status"

SummaryAdd(summary, e) ==
    [summary EXCEPT
        ![SummaryCounter(e)] = @ + 1,
        !.total_commands_sent = @ + Len(e.recent_commands),
        !.most_recent_activity = IF @ = NoneTime \/ e.updated_at > @ THEN e.updated_at ELSE @]

RECURSIVE SummaryLoop(_, _, _)
SummaryLoop(summary, st, names) ==
    IF names = {} THEN summary
    ELSE LET n == CHOOSE x \in names : TRUE
         IN  SummaryLoop(SummaryAdd(summary, st.statuses[n]), st, names \ {n})

Summarised(st, worktree_names) ==
    IF worktree_names # {} THEN DOMAIN st.statuses \cap worktree_names
    ELSE DOMAIN st.statuses

get_summary(st, worktree_names) ==
    SummaryLoop(NewStatusSummary(IF worktree_names # {} THEN Cardinality(worktree_names)
                                 ELSE Cardinality(Summarised(st, worktree_names)),
                                 Cardinality(Summarised(st, worktree_names))),
                st, Summarised(st, worktree_names))

(***************************************************************************)
(* utils/io.py : the directory that holds the status file.  A name is      *)
(* bound to an inode; an inode holds a document and how many of its        *)
(* WriteChunks chunks have reached the file.                               *)
(***************************************************************************)
WriteChunks == 2
Procs == {1, 2}
Dest == "dest"
TmpName(p) == IF p = 1 THEN "tmp1" ELSE "tmp2"
NoInode == 0

EmptyDir == [dir |-> [n \in {Dest, "tmp1", "tmp2"} |-> NoInode], inodes |-> <<>>]

Complete(content) == content.written = WriteChunks

\* what open(path) + json.load hands to model_validate
AsFile(content) == IF Complete(content) THEN JsonFile(content.doc) ELSE GarbageFile

(***************************************************************************)
(* Strings of the worktree manager are sequences of characters.            *)
(***************************************************************************)
AsciiWord ==
    {"a", "b", "c", "d", "e", "f", "g", "h", "i", "j", "k", "l", "m", "n", "o", "p",
     "q", "r", "s", "t", "u", "v", "w", "x", "y", "z",
     "A", "B", "C", "D", "E", "F", "G", "H", "I", "J", "K", "L", "M", "N", "O", "P",
     "Q", "R", "S", "T", "U", "V", "W", "X", "Y", "Z",
     "0", "1", "2", "3", "4", "5", "6", "7", "8", "9", "_"}

\* Python's \w on str also matches the letters and digits outside ASCII
UnicodeWord == {"é", "ß"}

StartsWith(s, pre) == Len(s) >= Len(pre) /\ SubSeq(s, 1, Len(pre)) = pre
EndsWith(s, suf) == Len(s) >= Len(suf) /\ SubSeq(s, Len(s) - Len(suf) + 1, Len(s)) = suf
DropFirst(s, k) == SubSeq(s, k + 1, Len(s))
\* s[:k]
Prefix(s, k) == SubSeq(s, 1, IF k < Len(s) THEN k ELSE Len(s))
RECURSIVE LastSlashBefore(_, _)
LastSlashBefore(s, i) ==
    IF i = 0 THEN 0 ELSE IF s[i] = "/" THEN i ELSE LastSlashBefore(s, i - 1)
LastSlash(s) == LastSlashBefore(s, Len(s))
PathName(path) == DropFirst(path, LastSlash(path))
PathParent(path) == SubSeq(path, 1, LastSlash(path) - 1)
JoinPath(dir, name) == dir \o <<"/">> \o name

\* re.sub(r"[^\w\-]", "", s)
WordOrDash == AsciiWord \cup UnicodeWord \cup {"-"}

IsWordOrDash(c) == c \in WordOrDash

StripNonWord(s) == SelectSeq(s, IsWordOrDash)

(***************************************************************************)
(* core/worktree.py : WorktreeManager.                                     *)
(***************************************************************************)
NoRec == [path |-> <<>>, name |-> <<>>, branch |-> <<>>, head_commit |-> <<>>,
          is_main |-> FALSE, is_detached |-> FALSE]
NoPath == <<>>
RefsHeads == <<"r", "e", "f", "s", "/", "h", "e", "a", "d", "s", "/">>
DetachedName == <<"(", "d", "e", "t", "a", "c", "h", "e", "d", ")">>
HeadSha == <<"0", "1", "2", "3", "4", "5", "6", "7", "8", "9">>

project_name == PathName(git_root)

sanitize_branch_name(branch) ==
    StripNonWord([i \in 1..Len(branch) |-> IF branch[i] = "/" THEN "-" ELSE branch[i]])

generate_worktree_path(branch) ==
    JoinPath(PathParent(git_root), project_name \o <<"-">> \o sanitize_branch_name(branch))

\* the branch of a `branch refs/heads/...` line, read the way a last-component split would
BranchOfRefLastComponent(branch_ref) ==
    IF StartsWith(branch_ref, RefsHeads) THEN PathName(branch_ref)
    ELSE IF branch_ref = <<>> THEN DetachedName ELSE branch_ref

BranchOfRef(branch_ref) ==
    IF StartsWith(branch_ref, RefsHeads) THEN DropFirst(branch_ref, 11)
    ELSE IF branch_ref = <<>> THEN DetachedName ELSE branch_ref

\* Path(s): the empty string is the current directory
PyPath(s) == IF s = <<>> THEN <<".">> ELSE s

parse_worktree_entry(entry) ==
    [path |-> PyPath(entry.path),
     name |-> PathName(entry.path),
     branch |-> BranchOfRef(entry.branch),
     head_commit |-> Prefix(entry.head, 7),
     is_main |-> PyPath(entry.path) = git_root,
     is_detached |-> entry.detached]

list_all(w) == [i \in 1..Len(w) |-> parse_worktree_entry(w[i])]

Matches(rec, identifier) ==
    \/ rec.name = identifier
    \/ rec.branch = identifier
    \/ rec.path = identifier
    \/ EndsWith(rec.branch, <<"/">> \o identifier)

\* index of the worktree _find_worktree returns, 0 for None
RECURSIVE FirstMatchFrom(_, _, _)
FirstMatchFrom(listing, identifier, i) ==
    IF i > Len(listing) THEN 0
    ELSE IF Matches(listing[i], identifier) THEN i
    ELSE FirstMatchFrom(listing, identifier, i + 1)

find_worktree(listing, identifier) == FirstMatchFrom(listing, identifier, 1)

Found(listing, identifier) ==
    LET i == find_worktree(listing, identifier)
    IN  IF i = 0 THEN NoRec ELSE listing[i]

branch_exists(branch) == branch \in branches

(***************************************************************************)
(* git, as the manager drives it.                                          *)
(***************************************************************************)
MaxWorktrees == 3    \* registered worktrees, the main one included
MaxPathLen == 8      \* longest worktree path created

GitEntry(path, branch) ==
    [path |-> path, head |-> HeadSha, branch |-> RefsHeads \o branch, detached |-> FALSE]

CheckedOut(w, branch) == \E i \in 1..Len(w) : w[i].branch = RefsHeads \o branch

InsertAt(w, pos, e) == SubSeq(w, 1, pos - 1) \o <<e>> \o SubSeq(w, pos, Len(w))
RemoveAt(w, i) == SubSeq(w, 1, i - 1) \o SubSeq(w, i + 1, Len(w))

\* `git worktree add [-b] <path> <branch>` never gets --force from create:
\* git refuses a branch that another worktree has checked out
GitAddRefuses(w, branch) == CheckedOut(w, branch)

\* `git worktree remove [--force] <path>`: git refuses the main working tree,
\* and a working tree with changes unless forced
GitRemoveRefuses(w, path, force, dirty) ==
    \/ w[1].path = path
    \/ dirty /\ ~force

Outcome(op, identifier, path, force, outcome, msg, rec, git, pre) ==
    [op |-> op, id |-> identifier, path |-> path, force |-> force,
     outcome |-> outcome, msg |-> msg, rec |-> rec, git |-> git, pre |-> pre,
     changed |-> (wts' # wts \/ dirs' # dirs \/ branches' # branches)]

NoPre == [dir_exists |-> FALSE, branch_checked_out |-> FALSE, target |-> NoPath]

NoCall ==
    [op |-> "init", id |-> NoPath, path |-> NoPath, force |-> FALSE, outcome |-> "ok",
     msg |-> "", rec |-> NoRec, git |-> <<>>, pre |-> NoPre, changed |-> FALSE]

\* create's test `if existing and not force`
RefusesExistingInverted(existing, force) == existing # 0 /\ force

RefusesExisting(existing, force) == existing # 0 /\ ~force

create(branch, path, force) ==
    LET worktree_path == IF path = NoPath THEN generate_worktree_path(branch) ELSE path
        existing == find_worktree(list_all(wts), branch)
        pre == [dir_exists |-> worktree_path \in dirs,
                branch_checked_out |-> CheckedOut(wts, branch),
                target |-> worktree_path]
    IN  /\ git_root' = git_root
        /\ IF worktree_path \in dirs
           THEN /\ UNCHANGED <<wts, dirs, branches>>
                /\ ret' = Outcome("create", branch, path, force, "AlreadyExists",
                                  "Directory already exists", NoRec, <<>>, pre)
           ELSE IF RefusesExisting(existing, force)
           THEN /\ UNCHANGED <<wts, dirs, branches>>
                /\ ret' = Outcome("create", branch, path, force, "AlreadyExists",
                                  "Worktree for branch already exists", NoRec, <<>>, pre)
           ELSE IF GitAddRefuses(wts, branch)
           THEN /\ UNCHANGED <<wts, dirs, branches>>
                /\ ret' = Outcome("create", branch, path, force, "OperationFailed",
                                  "Failed to create worktree", NoRec, <<"add">>, pre)
           ELSE /\ Len(wts) < MaxWorktrees
                /\ Len(worktree_path) <= MaxPathLen
                /\ \E pos \in 2..(Len(wts) + 1) :
                      wts' = InsertAt(wts, pos, GitEntry(worktree_path, branch))
                /\ dirs' = dirs \cup {worktree_path}
                /\ branches' = branches \cup {branch}
                /\ IF find_worktree(list_all(wts'), branch) = 0
                   THEN ret' = Outcome("create", branch, path, force, "OperationFailed",
                                       "Worktree created but not found", NoRec,
                                       <<IF branch_exists(branch) THEN "add" ELSE "add -b">>, pre)
                   ELSE ret' = Outcome("create", branch, path, force, "ok", "",
                                       Found(list_all(wts'), branch),
                                       <<IF branch_exists(branch) THEN "add" ELSE "add -b">>, pre)

\* delete's test `if worktree.is_main`
RefusesMain(rec, force) == rec.is_main

delete(identifier, force, dirty) ==
    LET i == find_worktree(list_all(wts), identifier)
        worktree == Found(list_all(wts), identifier)
    IN  /\ UNCHANGED <<git_root, branches>>
        /\ IF i = 0
           THEN /\ UNCHANGED <<wts, dirs>>
                /\ ret' = Outcome("delete", identifier, NoPath, force, "NotFound",
                                  "Worktree not found", NoRec, <<>>, NoPre)
           ELSE IF RefusesMain(worktree, force)
           THEN /\ UNCHANGED <<wts, dirs>>
                /\ ret' = Outcome("delete", identifier, NoPath, force, "OperationFailed",
                                  "Cannot delete the main worktree", worktree, <<>>, NoPre)
           ELSE IF GitRemoveRefuses(wts, worktree.path, force, dirty)
           THEN /\ UNCHANGED <<wts, dirs>>
                /\ ret' = Outcome("delete", identifier, NoPath, force, "OperationFailed",
                                  "Failed to delete worktree", worktree,
                                  <<IF force THEN "remove --force" ELSE "remove">>, NoPre)
           ELSE /\ wts' = RemoveAt(wts, i)
                /\ dirs' = dirs \ {worktree.path}
                /\ ret' = Outcome("delete", identifier, NoPath, force, "ok", "", worktree,
                                  <<IF force THEN "remove --force" ELSE "remove">>, NoPre)

get(identifier) ==
    /\ UNCHANGED <<wts, dirs, branches, git_root>>
    /\ ret' = IF find_worktree(list_all(wts), identifier) = 0
              THEN Outcome("get", identifier, NoPath, FALSE, "NotFound",
                           "Worktree not found", NoRec, <<>>, NoPre)
              ELSE Outcome("get", identifier, NoPath, FALSE, "ok", "",
                           Found(list_all(wts), identifier), <<>>, NoPre)

\* WorktreeManager(): Repo(cwd, search_parent_directories=True).working_dir is
\* the working tree the command is run in, the main one or a linked one
NewManager(cwd) ==
    /\ git_root' = cwd
    /\ ret' = NoCall
    /\ UNCHANGED <<wts, dirs, branches>>

MainPath == <<"/", "w", "/", "r">>
MainBranch == <<"m">>
BranchInputs == {<<"a">>, <<"f", "/", "a">>}
PathInputs == {NoPath, <<"/", "w", "/", "a">>}
IdentInputs == BranchInputs \cup {<<"r">>, <<"/", "w", "/", "a">>}

NoWorktrees ==
    /\ wts = <<>>
    /\ dirs = {}
    /\ branches = {}
    /\ git_root = NoPath
    /\ ret = NoCall
    /\ sessions = {}
    /\ cli_statuses = {}
    /\ cli = NoCommand

InitWorktrees ==
    /\ cfg = [max_command_history |-> MaxCap, store_commands |-> TRUE, redact_commands |-> TRUE]
    /\ store = NewStatusStore(0)
    /\ file = AbsentFile
    /\ clock = 1
    /\ hist = [n \in Names |-> FreshHist]
    /\ procs = <<>>
    /\ fs = EmptyDir
    /\ renames = <<>>
    /\ wts = <<GitEntry(MainPath, MainBranch)>>
    /\ dirs = {MainPath}
    /\ branches = {MainBranch}
    /\ git_root = MainPath
    /\ ret = NoCall
    /\ sessions = {}
    /\ cli_statuses = {}
    /\ cli = NoCommand

NextWorktrees ==
    \/ /\ \E b \in BranchInputs, p \in PathInputs, force \in BOOLEAN : create(b, p, force)
       /\ UNCHANGED <<trackerVars, procVars, tmuxVars, cliVars>>
    \/ /\ \E id \in IdentInputs, force \in BOOLEAN, dirty \in BOOLEAN :
             (force => ~dirty) /\ delete(id, force, dirty)
       /\ UNCHANGED <<trackerVars, procVars, tmuxVars, cliVars>>
    \/ /\ \E id \in IdentInputs : get(id)
       /\ UNCHANGED <<trackerVars, procVars, tmuxVars, cliVars>>
    \/ /\ \E i \in 1..Len(wts) : NewManager(wts[i].path)
       /\ UNCHANGED <<trackerVars, procVars, tmuxVars, cliVars>>

SpecWorktrees == InitWorktrees /\ [][NextWorktrees]_vars

(***************************************************************************)
(* core/worktree.py : _generate_worktree_path on its own, for every branch *)
(* name git accepts over a small alphabet.                                 *)
(***************************************************************************)
MaxBranchLen == 3
BranchChars == {"a", "Z", "7", "_", "-", "/", ".", "é"}

\* git check-ref-format: no empty component, no component starting with a
\* dot, no two dots in a row, no trailing dot, no leading dash
ValidBranch(b) ==
    /\ Len(b) >= 1
    /\ b[1] \notin {"/", ".", "-"}
    /\ b[Len(b)] \notin {"/", "."}
    /\ \A i \in 1..(Len(b) - 1) :
          /\ ~(b[i] = "/" /\ b[i + 1] \in {"/", "."})
          /\ ~(b[i] = "." /\ b[i + 1] = ".")

BranchNames ==
    {b \in UNION {[1..n -> BranchChars] : n \in 1..MaxBranchLen} : ValidBranch(b)}

generate_path(branch) ==
    /\ UNCHANGED <<wts, dirs, branches, git_root, trackerVars, procVars, tmuxVars, cliVars>>
    /\ ret' = Outcome("generate_path", branch, generate_worktree_path(branch), FALSE,
                      "ok", "", NoRec, <<>>, NoPre)

NextGenerate == \E b \in BranchNames : generate_path(b)

SpecGenerate == InitWorktrees /\ [][NextGenerate]_vars

(***************************************************************************)
(* list_all on the text `git worktree list --porcelain` prints.            *)
(***************************************************************************)
MaxOutputLines == 3
Newline == "\n"
Tab == "\t"
Whitespace == {Space, Tab, Newline}

\* str.strip()
RECURSIVE LStrip(_)
LStrip(s) == IF s # <<>> /\ Head(s) \in Whitespace THEN LStrip(Tail(s)) ELSE s
RECURSIVE RStrip(_)
RStrip(s) ==
    IF s # <<>> /\ s[Len(s)] \in Whitespace THEN RStrip(SubSeq(s, 1, Len(s) - 1)) ELSE s
Strip(s) == RStrip(LStrip(s))

\* output.split(Newline): always at least one line
RECURSIVE FirstNewline(_, _)
FirstNewline(s, i) ==
    IF i > Len(s) THEN 0 ELSE IF s[i] = Newline THEN i ELSE FirstNewline(s, i + 1)
RECURSIVE SplitLines(_)
SplitLines(s) ==
    LET i == FirstNewline(s, 1)
    IN  IF i = 0 THEN <<s>> ELSE <<SubSeq(s, 1, i - 1)>> \o SplitLines(DropFirst(s, i))

WorktreePrefix == <<"w", "o", "r", "k", "t", "r", "e", "e", " ">>
HeadPrefix == <<"H", "E", "A", "D", " ">>
BranchPrefix == <<"b", "r", "a", "n", "c", "h", " ">>
DetachedWord == <<"d", "e", "t", "a", "c", "h", "e", "d">>
BareWord == <<"b", "a", "r", "e">>

\* current_wt is a dict: a function on the keys set so far
EmptyDict == <<>>
SetKey(d, k, v) == [x \in DOMAIN d \cup {k} |-> IF x = k THEN v ELSE d[x]]
DictGet(d, k, default) == IF k \in DOMAIN d THEN d[k] ELSE default

ReadLine(current_wt, line) ==
    IF StartsWith(line, WorktreePrefix) THEN SetKey(current_wt, "path", DropFirst(line, 9))
    ELSE IF StartsWith(line, HeadPrefix) THEN SetKey(current_wt, "head", DropFirst(line, 5))
    ELSE IF StartsWith(line, BranchPrefix) THEN SetKey(current_wt, "branch", DropFirst(line, 7))
    ELSE IF line = DetachedWord THEN SetKey(current_wt, "detached", TRUE)
    ELSE IF line = BareWord THEN SetKey(current_wt, "bare", TRUE)
    ELSE current_wt

\* the entry.get(key, default) reads of _parse_worktree_entry
EntryOf(d) ==
    [path |-> DictGet(d, "path", <<>>), head |-> DictGet(d, "head", <<>>),
     branch |-> DictGet(d, "branch", <<>>), detached |-> DictGet(d, "detached", FALSE)]

FlushEntry(worktrees, current_wt) ==
    IF DOMAIN current_wt # {}
    THEN Append(worktrees, parse_worktree_entry(EntryOf(current_wt)))
    ELSE worktrees

RECURSIVE ParseLines(_, _, _)
ParseLines(lines, current_wt, worktrees) ==
    IF lines = <<>> THEN FlushEntry(worktrees, current_wt)
    ELSE LET line == Strip(Head(lines))
         IN  IF line = <<>>
             THEN ParseLines(Tail(lines),
                             IF DOMAIN current_wt # {} THEN EmptyDict ELSE current_wt,
                             FlushEntry(worktrees, current_wt))
             ELSE ParseLines(Tail(lines), ReadLine(current_wt, line), worktrees)

list_all_output(output) == ParseLines(SplitLines(output), EmptyDict, <<>>)

\* what git prints for its worktrees: one block per worktree, each closed
\* by an empty line
RECURSIVE git_worktree_list(_)
git_worktree_list(w) ==
    IF w = <<>> THEN <<>>
    ELSE WorktreePrefix \o Head(w).path \o <<Newline>>
         \o HeadPrefix \o Head(w).head \o <<Newline>>
         \o (IF Head(w).detached THEN DetachedWord
             ELSE BranchPrefix \o Head(w).branch) \o <<Newline, Newline>>
         \o git_worktree_list(Tail(w))

\* list_all reads the same records off git's text as off git's worktrees
ListAllReadsGitOutput == list_all(wts) = list_all_output(git_worktree_list(wts))

PorcelainLines ==
    {WorktreePrefix \o MainPath,
     <<Space>> \o WorktreePrefix \o <<"/", "w", "/", "a">>,
     HeadPrefix \o HeadSha,
     BranchPrefix \o RefsHeads \o <<"a">>,
     DetachedWord,
     BareWord,
     <<>>,
     <<Space>>}

RECURSIVE JoinLines(_)
JoinLines(ls) ==
    IF ls = <<>> THEN <<>>
    ELSE IF Len(ls) = 1 THEN Head(ls)
    ELSE Head(ls) \o <<Newline>> \o JoinLines(Tail(ls))

Outputs == {JoinLines(ls) : ls \in UNION {[1..n -> PorcelainLines] : n \in 0..MaxOutputLines}}

\* list_all with git answering `output`, or failing with GitCommandError
list_text(failed, output) ==
    /\ UNCHANGED <<wts, dirs, branches, git_root, trackerVars, procVars, tmuxVars, cliVars>>
    /\ ret' = [op |-> "list_all", failed |-> failed, output |-> output,
               listing |-> IF failed THEN <<>> ELSE list_all_output(output)]

NextList ==
    \/ \E output \in Outputs : list_text(FALSE, output)
    \/ list_text(TRUE, <<>>)

SpecList == InitWorktrees /\ [][NextList]_vars

(***************************************************************************)
(* core/tmux_manager.py : TmuxManager.  The server's sessions are a set of *)
(* names; a libtmux call either succeeds or raises LibTmuxException.       *)
(***************************************************************************)
SessionPrefix == <<"c", "w", "t", "-">>

\* _generate_session_name: f"{SESSION_PREFIX}-{name with / and . replaced by -}"
generate_session_name(worktree_name) ==
    SessionPrefix \o [i \in 1..Len(worktree_name) |->
                         IF worktree_name[i] \in {"/", "."} THEN "-" ELSE worktree_name[i]]

NoTmuxError == {}
TmuxError == {"TmuxError"}
TmuxSessionExistsError == {"TmuxSessionExistsError", "TmuxError"}
TmuxSessionNotFoundError == {"TmuxSessionNotFoundError", "TmuxError"}

\* the libtmux call of create_session that raises, if any
TmuxFailures == {"none", "new_session", "layout", "claude", "info"}

TmuxResult(raised, ss) == [raised |-> raised, sessions |-> ss]

\* create_session on the sessions ss: what it raises and the sessions it leaves
create_session_call(ss, session_name, dir_exists, auto_start_claude, fail) ==
    IF session_name \in ss THEN TmuxResult(TmuxSessionExistsError, ss)
    ELSE IF ~dir_exists THEN TmuxResult(TmuxError, ss)
    ELSE IF fail = "new_session" THEN TmuxResult(TmuxError, ss)
    ELSE IF fail = "layout" \/ (fail = "claude" /\ auto_start_claude) \/ fail = "info"
    THEN TmuxResult(TmuxError, ss \cup {session_name})
    ELSE TmuxResult(NoTmuxError, ss \cup {session_name})

create_worktree_session_call(ss, worktree_name, dir_exists, auto_start_claude, fail) ==
    create_session_call(ss, generate_session_name(worktree_name), dir_exists,
                        auto_start_claude, fail)

kill_session_call(ss, session_name, fails) ==
    IF session_name \notin ss THEN TmuxResult(TmuxSessionNotFoundError, ss)
    ELSE IF fails THEN TmuxResult(TmuxError, ss)
    ELSE TmuxResult(NoTmuxError, ss \ {session_name})

\* the session name found, <<>> for None
get_session_for_worktree(ss, worktree_name) ==
    IF generate_session_name(worktree_name) \in ss
    THEN <<generate_session_name(worktree_name)>> ELSE <<>>

WorktreeNames == {<<"r", "-", "a">>, <<"r", "-", "b">>, <<"r", ".", "a">>}
WorkingDirs == {MainPath, <<"/", "w", "/", "a">>}

TmuxCall(op, name, dir, claude, fail, r) ==
    /\ sessions' = r.sessions
    /\ ret' = [op |-> op, name |-> name, dir |-> dir, claude |-> claude, fail |-> fail,
               raised |-> r.raised, before |-> sessions]
    /\ UNCHANGED <<wts, dirs, branches, git_root, trackerVars, procVars, cliVars>>

tmux_create_session(session_name, working_directory, auto_start_claude, fail) ==
    TmuxCall("create_session", session_name, working_directory, auto_start_claude, fail,
             create_session_call(sessions, session_name, working_directory \in dirs,
                                 auto_start_claude, fail))

tmux_kill_session(session_name, fails) ==
    TmuxCall("kill_session", session_name, NoPath, FALSE, IF fails THEN "kill" ELSE "none",
             kill_session_call(sessions, session_name, fails))

NextTmux ==
    \/ \E n \in WorktreeNames, d \in WorkingDirs, c \in BOOLEAN, f \in TmuxFailures :
           tmux_create_session(generate_session_name(n), d, c, f)
    \/ \E n \in WorktreeNames, fails \in BOOLEAN :
           tmux_kill_session(generate_session_name(n), fails)

SpecTmux == InitWorktrees /\ [][NextTmux]_vars

(***************************************************************************)
(* core/sync.py : SyncService.sync_worktree.  _run_git_command is          *)
(* subprocess.run with a timeout and without check: a git command ends     *)
(* with exit status 0 (ok), with another exit status (fail), or            *)
(* subprocess.run raises TimeoutExpired (timeout).                         *)
(***************************************************************************)
SyncCommands == {"stash push", "fetch", "rev-list", "pull", "stash pop"}
GitOutcomes == {"ok", "fail", "timeout"}
BehindCounts == {0, 2}

SyncResult(status, commands) == [status |-> status, commands |-> commands]

\* `except Exception`: the result returned for an exception in the try block
SyncError(commands) == SyncResult("error", commands)

\* from the pull on: pull, stash pop if stashed, and the result
PullAndPop(git, stashed, commands) ==
    IF git["pull"] = "timeout" THEN SyncError(Append(commands, "pull"))
    ELSE IF ~stashed
    THEN SyncResult(IF git["pull"] # "ok" THEN "conflicts" ELSE "success",
                    Append(commands, "pull"))
    ELSE IF git["stash pop"] = "timeout"
    THEN SyncError(commands \o <<"pull", "stash pop">>)
    ELSE SyncResult(IF git["stash pop"] # "ok" \/ git["pull"] # "ok"
                    THEN "conflicts" ELSE "success",
                    commands \o <<"pull", "stash pop">>)

\* from _get_commit_counts on; a failed rev-list counts as 0 behind
CountAndPull(git, stashed, behind, commands) ==
    LET commits_behind == IF git["rev-list"] = "ok" THEN behind ELSE 0
        counted == Append(commands, "rev-list")
    IN  IF git["rev-list"] = "timeout" THEN SyncError(counted)
        ELSE IF commits_behind = 0
        THEN IF ~stashed THEN SyncResult("up_to_date", counted)
             ELSE IF git["stash pop"] = "timeout"
             THEN SyncError(Append(counted, "stash pop"))
             ELSE SyncResult("up_to_date", Append(counted, "stash pop"))
        ELSE PullAndPop(git, stashed, counted)

\* the try block: stash push if there are changes, fetch, then the rest
StashAndFetch(git, stashed, behind, commands) ==
    LET pushed == IF stashed THEN Append(commands, "stash push") ELSE commands
    IN  IF stashed /\ git["stash push"] = "timeout" THEN SyncError(pushed)
        ELSE IF git["fetch"] = "timeout" THEN SyncError(Append(pushed, "fetch"))
        ELSE CountAndPull(git, stashed, behind, Append(pushed, "fetch"))

\* the status returned and the git commands run, in order
sync_worktree_call(auto_stash, exists, upstream, dirty, git, behind) ==
    IF ~exists THEN SyncResult("error", <<>>)
    ELSE IF ~upstream THEN SyncResult("no_upstream", <<"branch", "rev-parse">>)
    ELSE IF dirty /\ ~auto_stash
    THEN SyncResult("uncommitted_changes", <<"branch", "rev-parse", "status">>)
    ELSE StashAndFetch(git, dirty /\ auto_stash, behind,
                       <<"branch", "rev-parse", "status", "status">>)

\* SyncService(SyncConfig(auto_stash=...))
NewSyncService(auto_stash) ==
    /\ ret' = [op |-> "SyncService", auto_stash |-> auto_stash]
    /\ UNCHANGED <<wts, dirs, branches, git_root, trackerVars, procVars, tmuxVars, cliVars>>

sync_worktree(exists, upstream, dirty, git, behind) ==
    /\ ret.op = "SyncService"
    /\ ret' = [op |-> "sync_worktree", auto_stash |-> ret.auto_stash, exists |-> exists,
               upstream |-> upstream, dirty |-> dirty, git |-> git, behind |-> behind,
               result |-> sync_worktree_call(ret.auto_stash, exists, upstream, dirty,
                                             git, behind)]
    /\ UNCHANGED <<wts, dirs, branches, git_root, trackerVars, procVars, tmuxVars, cliVars>>

NextSync ==
    \/ \E auto_stash \in BOOLEAN : NewSyncService(auto_stash)
    \/ \E exists \in BOOLEAN, upstream \in BOOLEAN, dirty \in BOOLEAN,
          git \in [SyncCommands -> GitOutcomes], behind \in BehindCounts :
           sync_worktree(exists, upstream, dirty, git, behind)

SpecSync == InitWorktrees /\ [][NextSync]_vars

(***************************************************************************)
(* open_orchestrator/core/cleanup.py : CleanupService.  Times are whole    *)
(* days relative to the moment cleanup runs (datetime.now() is day 0), so  *)
(* a last access of -20 is twenty days ago.  A worktree passed to cleanup  *)
(* is what _get_worktree_stats finds at the path: whether the path exists, *)
(* its last access, and what the two git probes report.                    *)
(***************************************************************************)
MaxCleanupPaths == 2

DefaultStaleThresholdDays == 14

CleanupPath(i) == <<"/wt/a", "/wt/b", "/wt/c", "/wt/d">>[i]

LastAccessed == {-10, -20}

ThresholdDays == {0, 7}   \* 0 stands for None; both are falsy

CleanupConfig(protect_uncommitted, protect_unpushed) ==
    [stale_threshold_days |-> DefaultStaleThresholdDays,
     protect_uncommitted |-> protect_uncommitted,
     protect_unpushed |-> protect_unpushed]

WorktreeUsageStats ==
    [exists : {TRUE}, last_accessed : LastAccessed,
     has_uncommitted_changes : BOOLEAN, has_unpushed_commits : BOOLEAN]

MissingPath ==
    [exists |-> FALSE, last_accessed |-> 0,
     has_uncommitted_changes |-> FALSE, has_unpushed_commits |-> FALSE]

CleanupInputs ==
    UNION {[1..n -> WorktreeUsageStats \cup {MissingPath}] : n \in 0..MaxCleanupPaths}

\* get_stale_worktrees: the indexes, in order, of the paths that exist and
\* were last accessed before the cutoff.
get_stale_worktrees(config, worktrees, threshold_days) ==
    LET threshold == IF threshold_days # 0 THEN threshold_days
                     ELSE config.stale_threshold_days
        cutoff_date == 0 - threshold
    IN  SelectSeq([i \in 1..Len(worktrees) |-> i],
                  LAMBDA i : /\ worktrees[i].exists
                             /\ worktrees[i].last_accessed < cutoff_date)

never_protect(config, stats) == [protect |-> FALSE, reason |-> ""]

should_protect_worktree(config, stats) ==
    IF config.protect_uncommitted /\ stats.has_uncommitted_changes
    THEN [protect |-> TRUE, reason |-> "has uncommitted changes"]
    ELSE IF config.protect_unpushed /\ stats.has_unpushed_commits
    THEN [protect |-> TRUE, reason |-> "has unpushed commits"]
    ELSE [protect |-> FALSE, reason |-> ""]

\* The loop of cleanup over the stale worktrees.  `deleted` lists the paths
\* handed to _delete_worktree, whether or not git then removed them.
RECURSIVE CleanupLoop(_, _, _, _, _, _, _)
CleanupLoop(config, worktrees, stale, dry_run, force, delete_fails, acc) ==
    IF stale = <<>> THEN acc
    ELSE
        LET i == Head(stale)
            stats == worktrees[i]
            p == should_protect_worktree(config, stats)
            next ==
                IF p.protect /\ ~force
                THEN [acc EXCEPT !.report.worktrees_skipped = @ + 1,
                                 !.report.skipped_paths =
                                     Append(@, <<CleanupPath(i), p.reason>>)]
                ELSE IF dry_run
                THEN [acc EXCEPT !.report.worktrees_cleaned = @ + 1,
                                 !.report.cleaned_paths = Append(@, CleanupPath(i))]
                ELSE IF delete_fails
                THEN [acc EXCEPT !.deleted = Append(@, CleanupPath(i)),
                                 !.report.errors = Append(@, CleanupPath(i))]
                ELSE [acc EXCEPT !.deleted = Append(@, CleanupPath(i)),
                                 !.removed = Append(@, CleanupPath(i)),
                                 !.report.worktrees_cleaned = @ + 1,
                                 !.report.cleaned_paths = Append(@, CleanupPath(i))]
        IN  CleanupLoop(config, worktrees, Tail(stale), dry_run, force,
                        delete_fails, next)

cleanup_call(config, worktrees, dry_run, threshold_days, force, delete_fails) ==
    LET threshold == IF threshold_days # 0 THEN threshold_days
                     ELSE config.stale_threshold_days
        stale_worktrees == get_stale_worktrees(config, worktrees, threshold)
        report == [dry_run |-> dry_run,
                   stale_threshold_days |-> threshold,
                   worktrees_scanned |-> Len(worktrees),
                   stale_worktrees_found |-> Len(stale_worktrees),
                   worktrees_cleaned |-> 0,
                   worktrees_skipped |-> 0,
                   errors |-> <<>>,
                   cleaned_paths |-> <<>>,
                   skipped_paths |-> <<>>]
    IN  CleanupLoop(config, worktrees, stale_worktrees, dry_run, force, delete_fails,
                    [report |-> report, stale |-> stale_worktrees,
                     deleted |-> <<>>, removed |-> <<>>])

NewCleanupService(protect_uncommitted, protect_unpushed) ==
    /\ UNCHANGED <<wts, dirs, branches, git_root, trackerVars, procVars, tmuxVars, cliVars>>
    /\ ret' = [op |-> "CleanupService",
               config |-> CleanupConfig(protect_uncommitted, protect_unpushed)]

cleanup(worktrees, dry_run, threshold_days, force, delete_fails) ==
    /\ ret.op = "CleanupService"
    /\ UNCHANGED <<wts, dirs, branches, git_root, trackerVars, procVars, tmuxVars, cliVars>>
    /\ ret' = [op |-> "cleanup", config |-> ret.config, worktrees |-> worktrees,
               dry_run |-> dry_run, threshold_days |-> threshold_days,
               force |-> force, delete_fails |-> delete_fails,
               result |-> cleanup_call(ret.config, worktrees, dry_run,
                                       threshold_days, force, delete_fails)]

NextCleanup ==
    \/ \E pc \in BOOLEAN, pp \in BOOLEAN : NewCleanupService(pc, pp)
    \/ /\ ret.op = "CleanupService"
       /\ \E worktrees \in CleanupInputs, dry_run \in BOOLEAN,
             threshold_days \in ThresholdDays, force \in BOOLEAN,
             delete_fails \in BOOLEAN :
              cleanup(worktrees, dry_run, threshold_days, force, delete_fails)

SpecCleanup == InitWorktrees /\ [][NextCleanup]_vars

(***************************************************************************)
(* The tracker alone: one process, constructed on a missing or unreadable  *)
(* status file.                                                            *)
(***************************************************************************)
Configs ==
    [max_command_history : 1..MaxCap, store_commands : BOOLEAN, redact_commands : BOOLEAN]

InitFiles == {AbsentFile, UnreadableFile, GarbageFile, InvalidFile}

Init ==
    /\ cfg \in Configs
    /\ file \in InitFiles
    /\ ~load_raises(file)
    /\ clock = 1
    /\ store = load_store(file, 0)
    /\ hist = [n \in Names |-> FreshHist]
    /\ procs = <<>>
    /\ fs = EmptyDir
    /\ renames = <<>>
    /\ NoWorktrees

Next ==
    \/ \E n \in Names : initialize_status(n, "/w/x", "br", NoneStr, "claude")
    \/ \E n \in Names, s \in TaskStatuses : tracker_update_task(n, "task", s)
    \/ \E n \in Names, c \in CommandTexts : record_command(n, c, NoneStr, 0, 0)
    \/ \E n \in Names : tracker_mark_completed(n)
    \/ \E n \in Names : tracker_mark_idle(n)
    \/ \E n \in Names : set_notes(n, "note")
    \/ \E n \in Names : remove_status(n)
    \/ \E valid \in SUBSET Names : cleanup_orphans(valid)

Spec == Init /\ [][Next]_vars

\* the same tracker with the largest history cap only
InitCalls == Init /\ cfg.max_command_history = MaxCap

SpecCalls == InitCalls /\ [][Next]_vars

(***************************************************************************)
(* core/status.py : set_status, the public call that stores a status       *)
(* object built by the caller.                                             *)
(***************************************************************************)
set_status(e) ==
    /\ Mutate(StoreSetStatus(store, e, clock))
    /\ hist' = [hist EXCEPT ![e.worktree_name] =
                   [cmds |-> [i \in 1..Len(e.recent_commands) |-> e.recent_commands[i].command],
                    only |-> FALSE]]

CallerStatuses ==
    {[NewWorktreeAIStatus(n, "/w/x", "br", "sess", "droid", clock) EXCEPT
         !.activity_status = ValueStr(s),
         !.recent_commands = cs] :
       n \in Names, s \in {"error"},
       cs \in {<<CommandRecord(0, <<"ls">>, "wb", 1, 0),
                       CommandRecord(0, <<"ls">>, NoneStr, 0, 1)>>}}

NextSetStatus ==
    \/ Next
    \/ \E e \in CallerStatuses : set_status(e)

SpecSetStatus == Init /\ [][NextSetStatus]_vars

(***************************************************************************)
(* Several tracker processes on one status file.  Each constructs a        *)
(* StatusTracker (core/status.py _load_store: exists, open, read) and      *)
(* then performs mutating operations, each ending in _save_store and so    *)
(* in utils/io.py atomic_write_text, one file-system call at a time.       *)
(***************************************************************************)
MaxProcOps == 1      \* mutating operations each process performs

Content(doc, k, mode) == [doc |-> doc, written |-> k, mode |-> mode]

NewInode(f) == Len(f.inodes) + 1

\* tempfile.NamedTemporaryFile("w", dir=dest.parent, delete=False): a new,
\* empty, owner-only file under a fresh name of the same directory.
CreateTempInPlace(f, p, doc) ==
    IF f.dir[Dest] = NoInode
    THEN [dir |-> [f.dir EXCEPT ![TmpName(p)] = NewInode(f), ![Dest] = NewInode(f)],
          inodes |-> Append(f.inodes, Content(doc, 0, "0600"))]
    ELSE [dir |-> [f.dir EXCEPT ![TmpName(p)] = f.dir[Dest]],
          inodes |-> [f.inodes EXCEPT ![f.dir[Dest]] = Content(doc, 0, @.mode)]]

CreateTemp(f, p, doc) ==
    [dir |-> [f.dir EXCEPT ![TmpName(p)] = NewInode(f)],
     inodes |-> Append(f.inodes, Content(doc, 0, "0600"))]

\* tmp.write(data); tmp.flush(): the data reaches the temp file chunk by chunk
WriteChunk(f, p) ==
    [f EXCEPT !.inodes[f.dir[TmpName(p)]].written = @ + 1]

\* os.replace(tmp_name, dest): the name dest is rebound in one step
Replace(f, p) ==
    [f EXCEPT !.dir[Dest] = f.dir[TmpName(p)], !.dir[TmpName(p)] = NoInode]

\* os.chmod(dest, perms)
Chmod(f, mode) ==
    [f EXCEPT !.inodes[f.dir[Dest]].mode = mode]

SaveDataMerged(f, st) ==
    LET onDisk == IF f.dir[Dest] # NoInode /\ Complete(f.inodes[f.dir[Dest]])
                  THEN f.inodes[f.dir[Dest]].doc.statuses ELSE <<>>
        mine == DumpStore(st)
    IN  [mine EXCEPT !.statuses =
            [n \in (DOMAIN onDisk) \cup (DOMAIN mine.statuses) |->
                IF n \in DOMAIN mine.statuses THEN mine.statuses[n] ELSE onDisk[n]]]

\* _save_store: the document json.dumps(model_dump) hands to atomic_write_text
SaveData(f, st) == DumpStore(st)

NewProc ==
    [pc |-> "start", store |-> NewStatusStore(0), fd |-> NoInode,
     got |-> [kind |-> "none", content |-> Content(DumpStore(NewStatusStore(0)), 0, "")],
     atOpen |-> 0, atRead |-> 0, ops |-> 0, op |-> [kind |-> "none", name |-> ""]]

\* the version of the status file after k replaces
InitialDoc ==
    DumpStore(StoreSetStatus(NewStatusStore(0),
                             NewWorktreeAIStatus("wa", "/w/x", "br", NoneStr, "claude", 0), 0))

VersionDoc(k) == IF k = 0 THEN InitialDoc ELSE renames[k].doc

At(p, label) == procs[p].pc = label
Goto(p, label, changes) ==
    procs' = [procs EXCEPT ![p] = [f \in DOMAIN procs[p] |->
                 IF f = "pc" THEN label
                 ELSE IF f \in DOMAIN changes THEN changes[f] ELSE procs[p][f]]]

\* _load_store: if self._storage_path.exists()
LoadExists(p) ==
    /\ At(p, "start")
    /\ IF fs.dir[Dest] = NoInode
       THEN Goto(p, "ready", [store |-> NewStatusStore(clock), atRead |-> Len(renames)])
       ELSE Goto(p, "open", <<>>)
    /\ UNCHANGED <<trackerVars, wtVars, tmuxVars, cliVars, fs, renames>>

\* open(self._storage_path) and the shared lock, which no writer contends for
LoadOpen(p) ==
    /\ At(p, "open")
    /\ Goto(p, "read", [fd |-> fs.dir[Dest], atOpen |-> Len(renames)])
    /\ UNCHANGED <<trackerVars, wtVars, tmuxVars, cliVars, fs, renames>>

\* json.load(f) and StatusStore.model_validate(data); any failure gives StatusStore()
LoadRead(p) ==
    /\ At(p, "read")
    /\ Goto(p, "ready",
            [got |-> [kind |-> "read", content |-> fs.inodes[procs[p].fd]],
             store |-> load_store(AsFile(fs.inodes[procs[p].fd]), clock),
             atRead |-> Len(renames)])
    /\ UNCHANGED <<trackerVars, wtVars, tmuxVars, cliVars, fs, renames>>

\* the in-memory part of a successful mutating call, up to json.dumps
ProcMutate(p, newStore, kind, name) ==
    /\ At(p, "ready")
    /\ procs[p].ops < MaxProcOps
    /\ Goto(p, "create", [store |-> newStore, op |-> [kind |-> kind, name |-> name]])
    /\ clock' = clock + 1
    /\ UNCHANGED <<cfg, store, file, hist, fs, renames, wtVars, tmuxVars, cliVars>>

ProcInitialize(p, name) ==
    ProcMutate(p, StoreSetStatus(procs[p].store,
                     NewWorktreeAIStatus(name, "/w/x", "br", NoneStr, "claude", clock), clock),
               "initialize_status", name)

ProcMarkCompleted(p, name) ==
    /\ Tracked(procs[p].store, name)
    /\ ProcMutate(p, StoreSetStatus(procs[p].store,
                        mark_completed(procs[p].store.statuses[name], clock), clock),
                  "mark_completed", name)

\* atomic_write_text, step by step
WriteCreate(p) ==
    /\ At(p, "create")
    /\ fs' = CreateTemp(fs, p, SaveData(fs, procs[p].store))
    /\ Goto(p, "write", <<>>)
    /\ UNCHANGED <<trackerVars, wtVars, tmuxVars, cliVars, renames>>

WriteData(p) ==
    /\ At(p, "write")
    /\ fs' = WriteChunk(fs, p)
    /\ Goto(p, IF fs'.inodes[fs.dir[TmpName(p)]].written = WriteChunks
               THEN "replace" ELSE "write", <<>>)
    /\ UNCHANGED <<trackerVars, wtVars, tmuxVars, cliVars, renames>>

WriteReplace(p) ==
    /\ At(p, "replace")
    /\ fs' = Replace(fs, p)
    /\ renames' = Append(renames, [by |-> p, doc |-> fs.inodes[fs.dir[TmpName(p)]].doc])
    /\ Goto(p, "chmod", <<>>)
    /\ UNCHANGED <<trackerVars, wtVars, tmuxVars, cliVars>>

WriteChmod(p) ==
    /\ At(p, "chmod")
    /\ fs' = Chmod(fs, "0600")
    /\ Goto(p, "ready", [ops |-> procs[p].ops + 1])
    /\ UNCHANGED <<trackerVars, wtVars, tmuxVars, cliVars, renames>>

InitProcs ==
    /\ cfg = [max_command_history |-> MaxCap, store_commands |-> TRUE, redact_commands |-> TRUE]
    /\ store = NewStatusStore(0)
    /\ file = AbsentFile
    /\ clock = 1
    /\ hist = [n \in Names |-> FreshHist]
    /\ procs = [p \in Procs |-> NewProc]
    /\ fs \in {EmptyDir,
               [dir |-> [EmptyDir.dir EXCEPT ![Dest] = 1],
                inodes |-> <<Content(InitialDoc, WriteChunks, "0600")>>]}
    /\ renames = <<>>
    /\ NoWorktrees

NextProcs ==
    \E p \in Procs :
        \/ LoadExists(p)
        \/ LoadOpen(p)
        \/ LoadRead(p)
        \/ \E n \in Names : ProcInitialize(p, n)
        \/ \E n \in Names : ProcMarkCompleted(p, n)
        \/ WriteCreate(p)
        \/ WriteData(p)
        \/ WriteReplace(p)
        \/ WriteChmod(p)

SpecProcs == InitProcs /\ [][NextProcs]_vars

(***************************************************************************)
(* utils/io.py : atomic_write_text when its file-system calls can raise.   *)
(* One tracker process; each step either succeeds or raises an OSError     *)
(* (PermissionError is one).  tmp_name is set only after write, flush and  *)
(* fsync have succeeded, and reset after os.replace; the finally block     *)
(* unlinks the temp file only when tmp_name is set, then the pending       *)
(* exception leaves atomic_write_text, _save_store and the operation.      *)
(* A temp file left by an earlier call keeps its own random name, which    *)
(* the model forgets when the next call creates its temp file.             *)
(***************************************************************************)
Writers == {1}

NoError == {}
StepErrors == {NoError, {"OSError"}, {"PermissionError", "OSError"}}

NewWriter ==
    NewProc @@ [tmp_name |-> FALSE, exc |-> NoError, raised |-> NoError,
                step |-> "none", before |-> <<>>]

\* the destination file as a reader finds it: nothing, or its content
DestState(f) == IF f.dir[Dest] = NoInode THEN <<>> ELSE <<f.inodes[f.dir[Dest]]>>

\* os.unlink(tmp_name)
Unlink(f, p) == [f EXCEPT !.dir[TmpName(p)] = NoInode]

\* `except PermissionError` around os.chmod: logged as a warning
ChmodHandled == {"PermissionError"}

SaveErrorSuppressed(exc) == NoError

\* nothing between the failing step and the caller catches: the finally
\* block runs and the same exception goes on
Reraised(exc) == exc

Fails(p, step, exc, tmp_name) ==
    /\ Goto(p, "finally", [exc |-> exc, step |-> step, tmp_name |-> tmp_name])
    /\ UNCHANGED <<fs, renames>>

\* dest.parent.mkdir and tempfile.NamedTemporaryFile(dir=dest.parent, delete=False)
SaveCreate(p, exc) ==
    /\ At(p, "create")
    /\ IF exc = NoError
       THEN /\ fs' = CreateTemp(fs, p, SaveData(fs, procs[p].store))
            /\ Goto(p, "write", [before |-> DestState(fs), tmp_name |-> FALSE,
                                 exc |-> NoError, raised |-> NoError, step |-> "none"])
            /\ UNCHANGED renames
       ELSE /\ Goto(p, "finally", [before |-> DestState(fs), tmp_name |-> FALSE,
                                   exc |-> exc, raised |-> NoError, step |-> "create"])
            /\ UNCHANGED <<fs, renames>>
    /\ UNCHANGED <<trackerVars, wtVars, tmuxVars, cliVars>>

\* tmp.write(data)
SaveWrite(p, exc) ==
    /\ At(p, "write")
    /\ IF exc = NoError
       THEN /\ fs' = WriteChunk(fs, p)
            /\ Goto(p, IF fs'.inodes[fs.dir[TmpName(p)]].written = WriteChunks
                       THEN "fsync" ELSE "write", <<>>)
            /\ UNCHANGED renames
       ELSE Fails(p, "write", exc, FALSE)
    /\ UNCHANGED <<trackerVars, wtVars, tmuxVars, cliVars>>

\* tmp.flush(); os.fsync(tmp.fileno()); tmp_name = tmp.name
SaveSync(p, exc) ==
    /\ At(p, "fsync")
    /\ IF exc = NoError
       THEN Goto(p, "replace", [tmp_name |-> TRUE]) /\ UNCHANGED <<fs, renames>>
       ELSE Fails(p, "fsync", exc, FALSE)
    /\ UNCHANGED <<trackerVars, wtVars, tmuxVars, cliVars>>

\* os.replace(tmp_name, dest); tmp_name = None
SaveReplace(p, exc) ==
    /\ At(p, "replace")
    /\ IF exc = NoError
       THEN /\ fs' = Replace(fs, p)
            /\ renames' = Append(renames, [by |-> p, doc |-> fs.inodes[fs.dir[TmpName(p)]].doc])
            /\ Goto(p, "chmod", [tmp_name |-> FALSE])
       ELSE Fails(p, "replace", exc, TRUE)
    /\ UNCHANGED <<trackerVars, wtVars, tmuxVars, cliVars>>

\* os.chmod(dest, perms) in its try / except PermissionError
SaveChmod(p, exc) ==
    /\ At(p, "chmod")
    /\ IF exc = NoError
       THEN /\ fs' = Chmod(fs, "0600")
            /\ Goto(p, "finally", <<>>)
            /\ UNCHANGED renames
       ELSE IF exc \cap ChmodHandled # {}
       THEN Goto(p, "finally", <<>>) /\ UNCHANGED <<fs, renames>>
       ELSE Fails(p, "chmod", exc, FALSE)
    /\ UNCHANGED <<trackerVars, wtVars, tmuxVars, cliVars>>

\* finally: unlink the temp file if tmp_name is set (an OSError of unlink is
\* passed over), then return or let the pending exception go on
SaveFinally(p, unlink_fails) ==
    /\ At(p, "finally")
    /\ fs' = IF procs[p].tmp_name /\ ~unlink_fails THEN Unlink(fs, p) ELSE fs
    /\ Goto(p, IF Reraised(procs[p].exc) = NoError THEN "ready" ELSE "raised",
            [raised |-> Reraised(procs[p].exc), ops |-> procs[p].ops + 1])
    /\ UNCHANGED <<trackerVars, wtVars, tmuxVars, cliVars, renames>>

\* the caller of the operation handles the exception and goes on
Caught(p) ==
    /\ At(p, "raised")
    /\ Goto(p, "ready", <<>>)
    /\ UNCHANGED <<trackerVars, wtVars, tmuxVars, cliVars, fs, renames>>

InitSaves ==
    /\ cfg = [max_command_history |-> MaxCap, store_commands |-> TRUE, redact_commands |-> TRUE]
    /\ store = NewStatusStore(0)
    /\ file = AbsentFile
    /\ clock = 1
    /\ hist = [n \in Names |-> FreshHist]
    /\ procs = [p \in Writers |-> NewWriter]
    /\ fs \in {EmptyDir,
               [dir |-> [EmptyDir.dir EXCEPT ![Dest] = 1],
                inodes |-> <<Content(InitialDoc, WriteChunks, "0600")>>]}
    /\ renames = <<>>
    /\ NoWorktrees

NextSaves ==
    \E p \in Writers :
        \/ LoadExists(p)
        \/ LoadOpen(p)
        \/ LoadRead(p)
        \/ \E n \in Names : ProcInitialize(p, n)
        \/ \E n \in Names : ProcMarkCompleted(p, n)
        \/ \E exc \in StepErrors : SaveCreate(p, exc)
        \/ \E exc \in StepErrors : SaveWrite(p, exc)
        \/ \E exc \in StepErrors : SaveSync(p, exc)
        \/ \E exc \in StepErrors : SaveReplace(p, exc)
        \/ \E exc \in StepErrors : SaveChmod(p, exc)
        \/ \E unlink_fails \in BOOLEAN : SaveFinally(p, unlink_fails)
        \/ Caught(p)

SpecSaves == InitSaves /\ [][NextSaves]_vars

(***************************************************************************)
(* claude_orchestrator/cli.py : the create, delete and status commands.    *)
(* Each command builds its own WorktreeManager, TmuxManager and            *)
(* StatusTracker (claude_orchestrator/core/status.py), whose store is the  *)
(* set of entries its JSON file holds.  An exception is the set of its     *)
(* class and base classes; an except clause catches it when it names one   *)
(* of them.                                                                *)
(***************************************************************************)
DependencyInstallError == {"DependencyInstallError", "EnvironmentSetupError", "Exception"}
EnvFileError == {"EnvFileError", "EnvironmentSetupError", "Exception"}
UnicodeDecodeError == {"UnicodeDecodeError", "ValueError", "Exception"}

\* ProjectDetector.detect: None, a config without or with a package manager,
\* or an exception
Detections == {"none", "no_pm", "pm", "raises"}
DepsErrors == {NoError, DependencyInstallError}
EnvErrors == {NoError, EnvFileError, UnicodeDecodeError}

\* whether the list holds c
Ran(commands, c) == \E i \in 1..Len(commands) : commands[i] = c

Catches(handler, raised) == raised \cap handler # {}

SetupUnhandled == {}

\* `except EnvironmentSetupError` around each of the two setup steps
SetupHandled == {"EnvironmentSetupError"}

StepLog(steps, warnings) == [steps |-> steps, warnings |-> warnings]

\* the .env step of create_worktree, after the dependency step left `log`
env_step(log, env, env_raises) ==
    IF ~env THEN log
    ELSE IF env_raises = NoError THEN StepLog(Append(log.steps, "setup_env_file"), log.warnings)
    ELSE IF Catches(SetupHandled, env_raises)
    THEN StepLog(Append(log.steps, "setup_env_file"),
                 Append(log.warnings, "Could not setup .env"))
    ELSE StepLog(Append(log.steps, "setup_env_file"),
                 Append(log.warnings, "Environment setup failed"))

\* `if deps or env:` of create_worktree with its try blocks
environment_setup(deps, env, detect, deps_raises, env_raises) ==
    IF ~(deps \/ env) THEN StepLog(<<>>, <<>>)
    ELSE IF detect = "raises" THEN StepLog(<<"detect">>, <<"Environment setup failed">>)
    ELSE IF detect = "none" THEN StepLog(<<"detect">>, <<>>)
    ELSE IF deps /\ detect = "pm"
    THEN IF deps_raises = NoError
         THEN env_step(StepLog(<<"detect", "install_dependencies">>, <<>>), env, env_raises)
         ELSE IF Catches(SetupHandled, deps_raises)
         THEN env_step(StepLog(<<"detect", "install_dependencies">>,
                               <<"Could not install dependencies">>), env, env_raises)
         ELSE StepLog(<<"detect", "install_dependencies">>, <<"Environment setup failed">>)
    ELSE env_step(StepLog(<<"detect">>, <<>>), env, env_raises)

\* claude_orchestrator/core/status.py
StatusEntry(worktree, tmux_session) ==
    [worktree_name |-> worktree.name, worktree_path |-> worktree.path,
     branch |-> worktree.branch, tmux_session |-> tmux_session,
     activity_status |-> "idle"]

StatusTracker_initialize_status(st, worktree, tmux_session) ==
    {s \in st : s.worktree_name # worktree.name} \cup {StatusEntry(worktree, tmux_session)}

StatusTracker_remove_status(st, worktree_name) ==
    {s \in st : s.worktree_name # worktree_name}

StatusTracker_cleanup_orphans(st, valid_worktree_names) ==
    {s \in st : Ran(valid_worktree_names, s.worktree_name)}

\* `if tmux and tmux_manager:` of create_worktree: the session and the status
\* entry it leaves, and what it adds to the log
tmux_step(log, worktree, tmux, claude, fail) ==
    LET r == create_worktree_session_call(sessions, worktree.name, worktree.path \in dirs',
                                          claude, fail)
        ran == Append(log.steps, "create_worktree_session")
    IN  IF ~tmux
        THEN [log |-> log, sessions |-> sessions, statuses |-> cli_statuses]
        ELSE IF r.raised = NoTmuxError
        THEN [log |-> StepLog(Append(ran, "initialize_status"), log.warnings),
              sessions |-> r.sessions,
              statuses |-> StatusTracker_initialize_status(
                               cli_statuses, worktree, generate_session_name(worktree.name))]
        ELSE IF Catches({"TmuxSessionExistsError"}, r.raised)
        THEN [log |-> StepLog(ran, Append(log.warnings, "tmux session already exists")),
              sessions |-> r.sessions, statuses |-> cli_statuses]
        ELSE [log |-> StepLog(ran, Append(log.warnings, "Could not create tmux session")),
              sessions |-> r.sessions, statuses |-> cli_statuses]

\* cwt create BRANCH [--path] [--force] [--no-tmux] [--no-claude] [--no-deps] [--no-env]
cli_create(branch, path, force, tmux, claude, deps, env, detect, deps_raises, env_raises, fail) ==
    /\ create(branch, path, force)
    /\ UNCHANGED <<trackerVars, procVars>>
    /\ LET worktree == ret'.rec
           setup == environment_setup(deps, env, detect, deps_raises, env_raises)
           done == tmux_step(setup, worktree, tmux, claude, fail)
           options == [cmd |-> "create", branch |-> branch, tmux |-> tmux, deps |-> deps,
                       env |-> env, detect |-> detect, deps_raises |-> deps_raises,
                       env_raises |-> env_raises, fail |-> fail, worktree |-> worktree]
       IN  IF ret'.outcome # "ok"
           THEN /\ UNCHANGED <<sessions, cli_statuses>>
                /\ cli' = options @@ [exit_code |-> 1, steps |-> <<>>, warnings |-> <<>>]
           ELSE /\ sessions' = done.sessions
                /\ cli_statuses' = done.statuses
                /\ cli' = options @@ [exit_code |-> 0, steps |-> done.log.steps,
                                      warnings |-> done.log.warnings]

\* cwt delete IDENTIFIER [--force] [--yes] [--keep-tmux]; `confirmed` is --yes
\* or the answer to the prompt
cli_delete(identifier, force, confirmed, keep_tmux, dirty, kill_fails) ==
    LET found == find_worktree(list_all(wts), identifier) # 0
        worktree == Found(list_all(wts), identifier)
        tmux_session == get_session_for_worktree(sessions, worktree.name)
        kills == tmux_session # <<>> /\ ~keep_tmux
        killed == IF kills THEN kill_session_call(sessions, tmux_session[1], kill_fails)
                  ELSE TmuxResult(NoTmuxError, sessions)
        options == [cmd |-> "delete", id |-> identifier, keep_tmux |-> keep_tmux,
                    worktree |-> worktree, tmux_session |-> tmux_session,
                    before |-> cli_statuses]
    IN  /\ UNCHANGED <<trackerVars, procVars>>
        /\ IF ~found
           THEN /\ get(identifier)
                /\ UNCHANGED <<sessions, cli_statuses>>
                /\ cli' = options @@ [exit_code |-> 1, steps |-> <<>>, warnings |-> <<>>]
           ELSE IF ~confirmed
           THEN /\ get(identifier)
                /\ UNCHANGED <<sessions, cli_statuses>>
                /\ cli' = options @@ [exit_code |-> 0, steps |-> <<>>, warnings |-> <<>>]
           ELSE /\ delete(identifier, force, dirty)
                /\ sessions' = killed.sessions
                /\ cli_statuses' =
                       IF ret'.outcome = "ok"
                       THEN StatusTracker_remove_status(cli_statuses, worktree.name)
                       ELSE cli_statuses
                /\ cli' = options @@
                       [exit_code |-> IF ret'.outcome = "ok" THEN 0 ELSE 1,
                        steps |-> (IF kills THEN <<"kill_session">> ELSE <<>>)
                                  \o <<"delete">>
                                  \o (IF ret'.outcome = "ok" THEN <<"remove_status">>
                                      ELSE <<>>),
                        warnings |-> IF killed.raised # NoTmuxError
                                     THEN <<"Could not kill tmux session">> ELSE <<>>]

\* WorktreeManager.list_all as the status command calls it: the empty list
\* when `git worktree list` raises GitCommandError
list_all_or_empty(w, git_fails) == IF git_fails THEN <<>> ELSE list_all(w)

\* cwt status, without an identifier
cli_status(git_fails) ==
    LET worktrees == list_all_or_empty(wts, git_fails)
        worktree_names == [i \in 1..Len(worktrees) |-> worktrees[i].name]
    IN  /\ UNCHANGED <<wts, dirs, branches, git_root, ret, sessions, trackerVars, procVars>>
        /\ cli_statuses' = StatusTracker_cleanup_orphans(cli_statuses, worktree_names)
        /\ cli' = [cmd |-> "status", git_fails |-> git_fails, before |-> cli_statuses,
                   exit_code |-> 0, steps |-> <<"list_all", "cleanup_orphans">>,
                   warnings |-> <<>>]

CliBranches == {<<"a">>, <<"b">>}
CliIdents == CliBranches \cup {MainBranch}

\* options that have no effect are left at their defaults
SetupInputs(deps, env, detect, deps_raises, env_raises) ==
    /\ (~deps /\ ~env) => detect = "none"
    /\ (~deps \/ detect # "pm") => deps_raises = NoError
    /\ (~env \/ detect \in {"none", "raises"}) => env_raises = NoError

\* one create command, on a server that may already hold a session
NextCreate ==
    \/ /\ cli = NoCommand
       /\ sessions = {}
       /\ \E b \in CliBranches :
              tmux_create_session(generate_session_name(PathName(generate_worktree_path(b))),
                                  MainPath, FALSE, "none")
    \/ /\ cli = NoCommand
       /\ \E b \in CliBranches, force \in BOOLEAN, tmux \in BOOLEAN, claude \in BOOLEAN,
             deps \in BOOLEAN, env \in BOOLEAN, detect \in Detections,
             deps_raises \in DepsErrors, env_raises \in EnvErrors, fail \in TmuxFailures :
              /\ SetupInputs(deps, env, detect, deps_raises, env_raises)
              /\ ~tmux => (fail = "none" /\ claude)
              /\ cli_create(b, NoPath, force, tmux, claude, deps, env, detect, deps_raises,
                            env_raises, fail)

SpecCreate == InitWorktrees /\ [][NextCreate]_vars

\* the three commands in any order
NextCli ==
    \/ \E b \in CliBranches, tmux \in BOOLEAN, fail \in {"none", "new_session", "layout"} :
           /\ ~tmux => fail = "none"
           /\ cli_create(b, NoPath, FALSE, tmux, TRUE, FALSE, FALSE, "none", NoError,
                         NoError, fail)
    \/ \E id \in CliIdents, force \in BOOLEAN, confirmed \in BOOLEAN, keep_tmux \in BOOLEAN,
          dirty \in BOOLEAN, kill_fails \in BOOLEAN :
           /\ force => ~dirty
           /\ cli_delete(id, force, confirmed, keep_tmux, dirty, kill_fails)
    \/ \E git_fails \in BOOLEAN : cli_status(git_fails)

SpecCli == InitWorktrees /\ [][NextCli]_vars

(***************************************************************************)
(* Claims about the status tracker.                                        *)
(***************************************************************************)
Commands(e) == [i \in 1..Len(e.recent_commands) |-> e.recent_commands[i].command]

\* C1: every tracked entry's recentCommands has at most max_command_history
\* records, in every state the tracker operations reach from an empty store.
C1_HistoryBounded ==
    \A n \in DOMAIN store.statuses :
        Len(store.statuses[n].recent_commands) <= cfg.max_command_history

C1_Witness ==
    \E n \in DOMAIN store.statuses :
        /\ Len(store.statuses[n].recent_commands) = cfg.max_command_history
        /\ cfg.max_command_history > 1
        /\ Len(hist[n].cmds) > cfg.max_command_history

\* the entry of n holds the last min(n, cap) recorded texts, oldest first,
\* and is working when only recordCommand followed initializeStatus
FifoAndWorking(n) ==
    /\ Commands(store.statuses[n]) =
          SubSeq(hist[n].cmds,
                 Len(hist[n].cmds) - Len(Commands(store.statuses[n])) + 1,
                 Len(hist[n].cmds))
    /\ Len(Commands(store.statuses[n])) =
          IF Len(hist[n].cmds) < cfg.max_command_history
          THEN Len(hist[n].cmds) ELSE cfg.max_command_history
    /\ (hist[n].only /\ Len(hist[n].cmds) >= 1)
          => StatusIs(store.statuses[n].activity_status, "working")

\* C2 (as claimed): after initializeStatus(name) and n recordCommand calls,
\* recentCommands is exactly the last min(n, cap) recorded commands in
\* recording order, and the status is working - for every tracker.
C2_FifoEveryConfig ==
    \A n \in DOMAIN store.statuses : FifoAndWorking(n)

\* C2 (amended): the same, for a tracker whose store_commands is enabled;
\* with store_commands disabled nothing is appended and the list stays as
\* initialize_status left it, while the status still turns working.
C2_FifoWhenStoring ==
    \A n \in DOMAIN store.statuses :
        /\ cfg.store_commands => FifoAndWorking(n)
        /\ ~cfg.store_commands =>
              /\ store.statuses[n].recent_commands = <<>>
              /\ (hist[n].only /\ Len(hist[n].cmds) >= 1)
                    => StatusIs(store.statuses[n].activity_status, "working")

C2_Witness ==
    \E n \in DOMAIN store.statuses :
        /\ cfg.store_commands
        /\ cfg.max_command_history = 2
        /\ hist[n].only
        /\ Len(hist[n].cmds) = 3
        /\ hist[n].cmds[1] # hist[n].cmds[3]
        /\ Commands(store.statuses[n]) = <<hist[n].cmds[2], hist[n].cmds[3]>>
        /\ StatusIs(store.statuses[n].activity_status, "working")

\* Python's == on two status objects: enum members equal their values.
Normal(e) == [e EXCEPT !.activity_status = ValueStr(EnumValue(@))]

SameStatuses(a, b) ==
    /\ DOMAIN a.statuses = DOMAIN b.statuses
    /\ \A n \in DOMAIN a.statuses : Normal(a.statuses[n]) = Normal(b.statuses[n])

\* C3: a new StatusTracker constructed on the same storage path loads the
\* names and per-entry field values the first tracker holds in memory.
C3_ReloadEqualsMemory ==
    SameStatuses(load_store(file, clock), store)

C3_Witness ==
    /\ file.kind = "json"
    /\ \E n \in DOMAIN store.statuses :
          /\ store.statuses[n].activity_status = Member("working")
          /\ store.statuses[n].notes # NoneStr
          /\ \E i \in 1..Len(store.statuses[n].recent_commands) :
                store.statuses[n].recent_commands[i].command = <<"password=", "[REDACTED]">>

(***************************************************************************)
(* Claims about single tracker calls, stated on the result of the call in  *)
(* every state the tracker reaches.                                        *)
(***************************************************************************)
\* C11: cleanupOrphans(validNames) removes exactly the tracked entries whose
\* name is not in validNames, returns exactly those names, and leaves every
\* other entry with all its field values as they were.
C11_CleanupExactlyOrphans ==
    \A valid \in SUBSET Names :
        LET r == cleanup_orphans_call(store, valid)
        IN  /\ DOMAIN r.store.statuses = {n \in DOMAIN store.statuses : n \in valid}
            /\ r.ret = {n \in DOMAIN store.statuses : n \notin valid}
            /\ \A n \in DOMAIN r.store.statuses : r.store.statuses[n] = store.statuses[n]

C11_Witness ==
    \E valid \in SUBSET Names, n \in Names :
        LET r == cleanup_orphans_call(store, valid)
        IN  /\ r.ret # {} /\ r.saved
            /\ n \in DOMAIN r.store.statuses
            /\ r.store.statuses[n].recent_commands # <<>>
            /\ r.store.statuses[n].updated_at < clock
            /\ r.store.updated_at = clock

C13_UntrackedIsNoOp ==
    \A n \in Names :
        ~Tracked(store, n) =>
            /\ \A s \in AIActivityStatus :
                  update_task_call(store, n, "task", s) = ReturnsNone(store)
            /\ \A c \in CommandTexts, src \in {NoneStr, "wb"} :
                  record_command_call(store, n, c, src, 0, 0) = ReturnsNone(store)
            /\ mark_completed_call(store, n) = ReturnsNone(store)
            /\ mark_idle_call(store, n) = ReturnsNone(store)
            /\ set_notes_call(store, n, "note") = ReturnsNone(store)
            /\ ~ReturnsNone(store).saved /\ ReturnsNone(store).ret = <<>>
            /\ ReturnsNone(store).store = store

C13_Witness ==
    \E n \in Names, m \in Names :
        /\ ~Tracked(store, n)
        /\ Tracked(store, m)
        /\ store.statuses[m].recent_commands # <<>>
        /\ file = save_store(store)
        /\ \E c \in CommandTexts : record_command_call(store, n, c, NoneStr, 0, 0).ret = <<>>

\* the store with the status of n replaced by s, held as the enum member or
\* as its value string
WithStatus(st, n, x) == [st EXCEPT !.statuses[n].activity_status = x]

\* C14: recordCommand on a tracked entry changes activityStatus only from
\* idle: an idle entry is working afterwards, and an entry that was working,
\* blocked, waiting, completed, error or unknown keeps its status.
C14_RecordOnlyLeavesIdle ==
    \A n \in DOMAIN store.statuses, s \in AIActivityStatus, c \in CommandTexts :
        \A x \in {Member(s), ValueStr(s), store.statuses[n].activity_status} :
            LET r == record_command_call(WithStatus(store, n, x), n, c, NoneStr, 0, 0)
            IN  /\ r.ret # <<>>
                /\ r.store.statuses[n] = r.ret[1]
                /\ EnumValue(r.ret[1].activity_status) =
                      IF EnumValue(x) = "idle" THEN "working" ELSE EnumValue(x)

C14_Witness ==
    \E n \in DOMAIN store.statuses :
        LET e == store.statuses[n]
        IN  /\ StatusIs(e.activity_status, "blocked")
            /\ e.recent_commands # <<>>
            /\ e.recent_commands[Len(e.recent_commands)].timestamp > e.last_task_update
            /\ e.last_task_update # NoneTime

\* the call changed the entry of n (enum members compare equal to their values)
ChangedEntry(r, n) == r.ret # <<>> /\ Normal(r.ret[1]) # Normal(store.statuses[n])

\* C15: every tracker operation that changes a tracked entry (updateTask,
\* recordCommand, markCompleted, markIdle, setNotes; for every configuration)
\* sets that entry's updatedAt to the time of the call.
C15_ChangeRefreshesUpdatedAt ==
    \A n \in DOMAIN store.statuses :
        \A r \in {update_task_call(store, n, "task", s) : s \in TaskStatuses}
                 \cup {record_command_call(store, n, c, NoneStr, 0, 0) : c \in CommandTexts}
                 \cup {mark_completed_call(store, n), mark_idle_call(store, n),
                       set_notes_call(store, n, "note")} :
            ChangedEntry(r, n) => r.ret[1].updated_at = clock

\* command texts that differ only in the value that follows the key: a bare
\* word, a quoted word, a quoted phrase, a word with a quote inside
SecretWords == {"hunter2", "s3cret"}
BareValues == {<<w>> : w \in SecretWords} \cup {<<Quote, w, Quote>> : w \in SecretWords}
SecretValues ==
    BareValues \cup {<<Quote, "correct", Space, w, Quote>> : w \in SecretWords}
               \cup {<<"it", Quote, w>> : w \in SecretWords}
TextWith(key, value) == <<"login", Space, key>> \o value \o <<Space, "now">>

SameStored(n, key, v1, v2) ==
    LET r1 == record_command_call(store, n, TextWith(key, v1), NoneStr, 0, 0)
        r2 == record_command_call(store, n, TextWith(key, v2), NoneStr, 0, 0)
        stored == r1.ret[1].recent_commands[Len(r1.ret[1].recent_commands)].command
    IN  /\ r1 = r2
        /\ save_store(r1.store) = save_store(r2.store)
        /\ cfg.store_commands =>
              /\ stored = <<"login", Space, key, Redacted, Space, "now">>
              /\ \A i \in 1..Len(stored) : stored[i] \notin SecretWords

\* C16: with redaction enabled, two recordCommand calls whose texts differ
\* only in the value following password= (token=, secret=, api_key=) leave
\* the same entry in memory and the same file: the stored text carries the
\* key followed by [REDACTED] and nothing of the value.
C16_SecretNeverStored ==
    cfg.redact_commands =>
        \A n \in DOMAIN store.statuses, key \in SecretKeys :
            \A v1 \in SecretValues, v2 \in SecretValues : SameStored(n, key, v1, v2)

SummaryFilters == SUBSET (Names \cup {"wc"})
WithStatusIn(st, names, statuses) ==
    {n \in names : EnumValue(st.statuses[n].activity_status) \in statuses}

CountsRight(st, f) ==
    LET sum == get_summary(st, f)
        es == IF f = {} THEN DOMAIN st.statuses ELSE DOMAIN st.statuses \cap f
    IN  /\ sum.active_ai_sessions = Cardinality(WithStatusIn(st, es, {"working"}))
        /\ sum.idle_ai_sessions = Cardinality(WithStatusIn(st, es, {"idle"}))
        /\ sum.blocked_ai_sessions = Cardinality(WithStatusIn(st, es, {"blocked"}))
        /\ sum.unknown_status = Cardinality(WithStatusIn(st, es,
                                   {"waiting", "completed", "error", "unknown"}))
        /\ sum.active_ai_sessions + sum.idle_ai_sessions
              + sum.blocked_ai_sessions + sum.unknown_status = Cardinality(es)
        /\ sum.worktrees_with_status = Cardinality(es)

\* C17: getSummary reports active = the number of summarised entries that
\* are working, idle = the number idle, blocked = the number blocked and
\* unknown = the number with any other status; the four counts sum to the
\* number of entries summarised.  Stated for the store as it is and with
\* any one entry carrying any of the seven statuses.
C17_SummaryCounts ==
    \A f \in SummaryFilters :
        /\ CountsRight(store, f)
        /\ \A n \in DOMAIN store.statuses, s \in AIActivityStatus :
              CountsRight(WithStatus(store, n, ValueStr(s)), f)

C17_Witness ==
    /\ Cardinality(DOMAIN store.statuses) = 2
    /\ get_summary(store, {}).active_ai_sessions = 1
    /\ get_summary(store, {}).unknown_status = 1
    /\ \E n \in DOMAIN store.statuses : StatusIs(store.statuses[n].activity_status, "completed")
    /\ get_summary(store, {"wa", "wc"}).unknown_status
          + get_summary(store, {"wa", "wc"}).active_ai_sessions = 1

(***************************************************************************)
(* Claims about concurrent processes on the status file.                   *)
(***************************************************************************)
\* C4: a process that opens and reads the status file while another runs
\* atomic_write_text reads a complete document: the one that was installed
\* at the moment it opened the file (the previous or the new one), never a
\* partial or empty file.
C4_ReaderSeesWholeFile ==
    \A p \in Procs :
        procs[p].got.kind = "read" =>
            /\ Complete(procs[p].got.content)
            /\ procs[p].got.content.doc = VersionDoc(procs[p].atOpen)

C4_Witness ==
    \E p \in Procs, q \in Procs :
        /\ p # q
        /\ procs[p].got.kind = "read"
        /\ procs[p].atRead > procs[p].atOpen
        /\ procs[p].got.content.doc = InitialDoc
        /\ fs.inodes[fs.dir[Dest]].doc # InitialDoc

DestDoc == fs.inodes[fs.dir[Dest]].doc

\* p and q each loaded before either renamed, each completed one mutating
\* operation, on different names, and p renamed last
Raced(p, q) ==
    /\ p # q
    /\ At(p, "ready") /\ At(q, "ready")
    /\ procs[p].ops = 1 /\ procs[q].ops = 1
    /\ procs[p].atRead = 0 /\ procs[q].atRead = 0
    /\ procs[p].op.name # procs[q].op.name
    /\ Len(renames) = 2
    /\ renames[2].by = p

\* C5: last writer wins.  The file is always the whole store of the process
\* that renamed last; when two processes loaded first and then each changed
\* a different name, the update of the one that renamed first is lost.
C5_LastWriterWins ==
    /\ \A p \in Procs :
          (At(p, "ready") /\ renames # <<>> /\ renames[Len(renames)].by = p)
             => /\ Complete(fs.inodes[fs.dir[Dest]])
                /\ DestDoc = DumpStore(procs[p].store)
    /\ \A p \in Procs, q \in Procs :
          Raced(p, q) =>
             \/ procs[q].op.name \notin DOMAIN DestDoc.statuses
             \/ DestDoc.statuses[procs[q].op.name]
                   # DumpEntry(procs[q].store.statuses[procs[q].op.name])

C5_Witness ==
    \E p \in Procs, q \in Procs :
        /\ Raced(p, q)
        /\ procs[p].op.kind = "initialize_status"
        /\ procs[q].op.kind = "initialize_status"
        /\ DOMAIN DestDoc.statuses = {procs[p].op.name}
        /\ DOMAIN procs[q].store.statuses = {procs[q].op.name}

(***************************************************************************)
(* Claims about the worktree manager.                                      *)
(***************************************************************************)
\* the main worktree is the primary checkout, which git lists first
PrimaryStillListed == Len(wts) >= 1 /\ wts[1].path = MainPath

\* C6: delete on an identifier that resolves to the main worktree raises
\* 'Cannot delete the main worktree', whatever force is, without invoking
\* git worktree remove, and the main worktree stays listed.
C6_DeleteMainRefused ==
    /\ PrimaryStillListed
    /\ (ret.op = "delete" /\ ret.rec.path = MainPath) =>
          /\ ret.outcome = "OperationFailed"
          /\ ret.msg = "Cannot delete the main worktree"
          /\ ret.git = <<>>

ByName(l, id) == {i \in 1..Len(l) : l[i].name = id}
ByBranch(l, id) == {i \in 1..Len(l) : l[i].branch = id}
ByPath(l, id) == {i \in 1..Len(l) : l[i].path = id}
BySuffix(l, id) == {i \in 1..Len(l) : EndsWith(l[i].branch, <<"/">> \o id)}

ByPrecedence(l, id, rec) ==
    IF ByName(l, id) # {} THEN rec.name = id
    ELSE IF ByBranch(l, id) # {} THEN rec.branch = id
    ELSE IF ByPath(l, id) # {} THEN rec.path = id
    ELSE BySuffix(l, id) # {} /\ EndsWith(rec.branch, <<"/">> \o id)

\* C8: get resolves by precedence over the whole list - name, then branch,
\* then path, then branch suffix - whatever the listing order, and raises
\* not-found iff nothing matches.
C8_GetByPrecedence ==
    ret.op = "get" =>
        /\ ret.outcome = "NotFound" <=>
              (ByName(list_all(wts), ret.id) \cup ByBranch(list_all(wts), ret.id)
               \cup ByPath(list_all(wts), ret.id) \cup BySuffix(list_all(wts), ret.id)) = {}
        /\ ret.outcome = "ok" => ByPrecedence(list_all(wts), ret.id, ret.rec)

\* C9: when create returns, the record it returns has the requested branch
\* and the supplied or generated path, for both values of force.
C9_CreateReturnsCreated ==
    (ret.op = "create" /\ ret.outcome = "ok") =>
        /\ ret.rec.branch = ret.id
        /\ ret.rec.path = ret.pre.target

\* C10: no two listed worktrees have the same named branch, after any
\* sequence of create and delete calls, successful or failed.
C10_NoDuplicateBranch ==
    \A i \in 1..Len(wts), j \in 1..Len(wts) :
        (i # j /\ ~list_all(wts)[i].is_detached)
            => list_all(wts)[i].branch # list_all(wts)[j].branch

C10_Witness ==
    /\ Len(wts) = 3
    /\ ret.op = "create"
    /\ ~ret.force
    /\ ret.pre.branch_checked_out
    /\ ret.outcome # "ok"
    /\ \E i \in 1..Len(wts) : EndsWith(wts[i].branch, <<"/", "f", "/", "a">>)
    /\ \E i \in 1..Len(wts) : EndsWith(wts[i].branch, <<"/", "a">>)
                                /\ ~EndsWith(wts[i].branch, <<"/", "f", "/", "a">>)

\* C20: whatever the outcome of the lock attempt, _load_store does not fail
\* because of it and loads the store it loads with the lock held.
C20_LockIsBestEffort ==
    \A lock \in LockOutcomes :
        /\ load_raises_under(file, lock) = load_raises(file)
        /\ load_store_under(file, lock, clock) = load_store(file, clock)

\* C28: create with force false raises already-exists only when the target
\* directory exists or a worktree has exactly this branch checked out.
C28_AlreadyExistsOnlyForBranchOrDir ==
    (ret.op = "create" /\ ~ret.force /\ ret.outcome = "AlreadyExists")
        => (ret.pre.dir_exists \/ ret.pre.branch_checked_out)

(***************************************************************************)
(* Claims about the tmux manager.                                          *)
(***************************************************************************)
\* C29: whenever create_session raises, the server's sessions are the ones
\* it had before the call.
C29_CreateSessionAtomic ==
    (ret.op = "create_session" /\ ret.raised # NoTmuxError) => sessions = ret.before

(***************************************************************************)
(* Claims about the sync service.                                          *)
(***************************************************************************)

\* C24: whenever sync_worktree runs stash push, it runs stash pop after it
\* and before it returns.
C24_StashPoppedOnEveryPath ==
    ret.op = "sync_worktree" =>
        \A i \in 1..Len(ret.result.commands) :
            ret.result.commands[i] = "stash push"
                => \E j \in (i + 1)..Len(ret.result.commands) :
                       ret.result.commands[j] = "stash pop"

(***************************************************************************)
(* Claims about the cleanup service.                                       *)
(***************************************************************************)
Stale(r, i) ==
    /\ r.worktrees[i].exists
    /\ r.worktrees[i].last_accessed <
           0 - (IF r.threshold_days # 0 THEN r.threshold_days
                ELSE r.config.stale_threshold_days)

Protected(r, i) ==
    \/ r.config.protect_uncommitted /\ r.worktrees[i].has_uncommitted_changes
    \/ r.config.protect_unpushed /\ r.worktrees[i].has_unpushed_commits

\* C25: cleanup hands a worktree to _delete_worktree only if dry_run is
\* false, the worktree is stale, and it is unprotected or force is true; a
\* stale protected worktree without force is listed as skipped.
C25_CleanupDeletesOnlyStaleUnprotected ==
    ret.op = "cleanup" =>
        \A i \in 1..Len(ret.worktrees) :
            /\ Ran(ret.result.deleted, CleanupPath(i))
                   => /\ ~ret.dry_run
                      /\ Stale(ret, i)
                      /\ (~Protected(ret, i) \/ ret.force)
            /\ (Stale(ret, i) /\ Protected(ret, i) /\ ~ret.force)
                   => /\ \E k \in 1..Len(ret.result.report.skipped_paths) :
                             ret.result.report.skipped_paths[k][1] = CleanupPath(i)
                      /\ ~Ran(ret.result.deleted, CleanupPath(i))
                      /\ ~Ran(ret.result.report.cleaned_paths, CleanupPath(i))

C25_Witness ==
    /\ ret.op = "cleanup"
    /\ ~ret.dry_run
    /\ ~ret.force
    /\ Len(ret.worktrees) = 2
    /\ Stale(ret, 1) /\ Protected(ret, 1)
    /\ Stale(ret, 2) /\ ~Protected(ret, 2)
    /\ ret.result.deleted = <<CleanupPath(2)>>
    /\ ret.result.report.worktrees_skipped = 1

(***************************************************************************)
(* Claims about the command line.                                          *)
(***************************************************************************)
Created == cli.cmd = "create" /\ ret.op = "create" /\ ret.outcome = "ok"

Registered(path) == \E i \in 1..Len(wts) : wts[i].path = path

HasEntry(st, worktree_name) == \E s \in st : s.worktree_name = worktree_name

C23_StatusEntryLifecycle ==
    /\ (cli.cmd = "create" /\ cli.exit_code = 0) =>
           \E s \in cli_statuses :
               s.worktree_name = cli.worktree.name /\ s.activity_status = "idle"
    /\ (cli.cmd = "delete" /\ cli.exit_code = 0 /\ Ran(cli.steps, "delete")) =>
           ~HasEntry(cli_statuses, cli.worktree.name)

\* C26: when WorktreeManager.delete fails in the delete command, the tmux
\* session of the worktree is still there and so is its status entry.
C26_DeleteAllOrNothing ==
    (cli.cmd = "delete" /\ ret.op = "delete" /\ ret.outcome = "OperationFailed") =>
        /\ cli.tmux_session # <<>> => cli.tmux_session[1] \in sessions
        /\ HasEntry(cli.before, cli.worktree.name)
               => HasEntry(cli_statuses, cli.worktree.name)

\* C27: the status command removes an entry only if no live worktree has
\* its name.
C27_OrphanCleanupKeepsLiveWorktrees ==
    cli.cmd = "status" =>
        \A s \in cli.before \ cli_statuses :
            ~\E i \in 1..Len(wts) : list_all(wts)[i].name = s.worktree_name

(***************************************************************************)
(* Claims about a failing save.                                            *)
(***************************************************************************)
PersistSteps == {"write", "fsync", "replace"}

\* C21: when the write of the temp file, the flush / fsync or the rename
\* raises during a mutating operation, that same error reaches the caller of
\* the operation, and the status file holds the complete contents it had
\* before the operation.
C21_SaveFailurePropagates ==
    \A p \in DOMAIN procs :
        ((At(p, "ready") \/ At(p, "raised")) /\ procs[p].step \in PersistSteps) =>
            /\ procs[p].raised = procs[p].exc
            /\ procs[p].raised # NoError
            /\ DestState(fs) = procs[p].before
            /\ \A i \in 1..Len(DestState(fs)) : Complete(DestState(fs)[i])

C21_Witness ==
    \E p \in DOMAIN procs :
        /\ At(p, "raised")
        /\ procs[p].step = "replace"
        /\ procs[p].raised = {"OSError"}
        /\ DestState(fs) # <<>>
        /\ DestState(fs)[1].doc # DumpStore(procs[p].store)

\* C30: when atomic_write_text has returned or raised, the directory holds
\* no temp file created by the call.
C30_NoTempLeftBehind ==
    \A p \in DOMAIN procs :
        (At(p, "ready") \/ At(p, "raised")) => fs.dir[TmpName(p)] = NoInode

\* the part of a generated directory name that comes from the branch
SanitizedPart(path) == DropFirst(PathName(path), Len(project_name) + 1)

AsciiNameChars == AsciiWord \cup {"-"}

\* C18: the sanitized name used for the worktree directory contains only
\* characters from [A-Za-z0-9_-], and every '/' and every '.' of the branch
\* appears in it as '-'.
C18_SanitizedIsAsciiDashed ==
    ret.op = "generate_path" =>
        LET d == SanitizedPart(ret.path)
            dashed == [i \in 1..Len(ret.id) |->
                          IF ret.id[i] \in {"/", "."} THEN "-" ELSE ret.id[i]]
        IN  /\ \A i \in 1..Len(d) : d[i] \in AsciiNameChars
            /\ d = SelectSeq(dashed, LAMBDA c : c \in AsciiNameChars)

\* the blocks of the output: runs of non-blank lines between blank lines
RECURSIVE BlocksFrom(_, _, _)
BlocksFrom(lines, block, blocks) ==
    IF lines = <<>> THEN Append(blocks, block)
    ELSE IF Strip(Head(lines)) = <<>>
         THEN BlocksFrom(Tail(lines), <<>>, Append(blocks, block))
         ELSE BlocksFrom(Tail(lines), Append(block, Strip(Head(lines))), blocks)

Blocks(output) == BlocksFrom(SplitLines(output), <<>>, <<>>)

WorktreeLines(block) == {i \in 1..Len(block) : StartsWith(block[i], WorktreePrefix)}

\* C19: list_all yields one record for each block that has a worktree line
\* and none for any other block, so every record has the non-empty path of a
\* listed worktree.
C19_RecordsAreListedWorktrees ==
    (ret.op = "list_all" /\ ~ret.failed) =>
        LET blocks == Blocks(ret.output)
            listed == {b \in 1..Len(blocks) : WorktreeLines(blocks[b]) # {}}
        IN  /\ Len(ret.listing) = Cardinality(listed)
            /\ \A r \in 1..Len(ret.listing) :
                   /\ ret.listing[r].path # <<>>
                   /\ \E b \in listed : \E i \in WorktreeLines(blocks[b]) :
                          ret.listing[r].path = DropFirst(blocks[b][i], 9)

====
